---- MODULE Spec2Model ----
(***************************************************************************)
(* Security-report normalizer (src/app/ai-parser.js).                      *)
(*                                                                         *)
(* JavaScript values are tagged records [t |-> <tag>, v |-> <payload>];    *)
(* strings are sequences of one-character strings so that toUpperCase,     *)
(* includes, split, endsWith and the regular expressions are computed      *)
(* character by character.  A raised exception is the value Throw, and     *)
(* every operator is strict in it.                                         *)
(***************************************************************************)
EXTENDS Integers, Sequences, FiniteSets, TLC

VARIABLES pc, raw, sev, fmt, content, out, dirs, sastData, scaData, dastData,
          written,
          version, promptDir, promptFiles, idx, requests, summary, reports, exitCode,
          ollamaStatus

\* the state of the recommender
recVars == <<version, promptDir, promptFiles, idx, requests, summary, reports, exitCode,
            ollamaStatus>>

\* the state of the normalizer's parsers and aggregators
parserVars == <<raw, sev, fmt, content, out, dirs, sastData, scaData, dastData>>

vars == <<pc, raw, sev, fmt, content, out, dirs, sastData, scaData, dastData,
          written, recVars>>

(***************************************************************************)
(* Bounds of the explored input space.                                     *)
(***************************************************************************)
MaxFrags == 3
MaxResults == 2
MaxFiles == 2

(***************************************************************************)
(* JavaScript values.                                                      *)
(***************************************************************************)
Undef == [t |-> "undefined"]
Null == [t |-> "null"]
Throw == [t |-> "throw"]
Bool(b) == [t |-> "boolean", v |-> b]
Num(n) == [t |-> "number", v |-> n]
Str(s) == [t |-> "string", v |-> s]
Arr(a) == [t |-> "array", v |-> a]
\* an object is its sequence of <<key, value>> pairs in insertion order
Obj(pairs) == [t |-> "object", v |-> pairs]

IsStr(x) == x.t = "string"
IsThrow(x) == x.t = "throw"
IsNullish(x) == x.t \in {"undefined", "null"}

\* ToBoolean: undefined, null, false, 0 and "" are falsy
Truthy(x) ==
  CASE x.t = "undefined" -> FALSE
    [] x.t = "null" -> FALSE
    [] x.t = "boolean" -> x.v
    [] x.t = "number" -> x.v # 0
    [] x.t = "string" -> x.v # <<>>
    [] OTHER -> TRUE

\* a || b, with b evaluated only when a is falsy
Or(a, b) == IF IsThrow(a) THEN Throw ELSE IF Truthy(a) THEN a ELSE b

HasKey(x, k) == x.t = "object" /\ \E i \in 1..Len(x.v) : x.v[i][1] = k

\* x.k : TypeError on undefined/null, undefined on a value without the key
Get(x, k) ==
  CASE IsThrow(x) -> Throw
    [] IsNullish(x) -> Throw
    [] HasKey(x, k) ->
         x.v[CHOOSE i \in 1..Len(x.v) :
               x.v[i][1] = k /\ \A j \in (i+1)..Len(x.v) : x.v[j][1] # k][2]
    [] OTHER -> Undef

\* x?.k
OptGet(x, k) == IF IsThrow(x) THEN Throw ELSE IF IsNullish(x) THEN Undef ELSE Get(x, k)

\* x?.[0]
OptFirst(x) ==
  CASE IsThrow(x) -> Throw
    [] IsNullish(x) -> Undef
    [] x.t = "array" -> IF Len(x.v) > 0 THEN x.v[1] ELSE Undef
    [] x.t = "string" -> IF Len(x.v) > 0 THEN Str(<<x.v[1]>>) ELSE Undef
    [] OTHER -> Get(x, "0")

IsArray(x) == x.t = "array"

(***************************************************************************)
(* Characters and strings.                                                 *)
(***************************************************************************)
LowerAlpha == <<"a","b","c","d","e","f","g","h","i","j","k","l","m",
                "n","o","p","q","r","s","t","u","v","w","x","y","z">>
UpperAlpha == <<"A","B","C","D","E","F","G","H","I","J","K","L","M",
                "N","O","P","Q","R","S","T","U","V","W","X","Y","Z">>
Digits == <<"0","1","2","3","4","5","6","7","8","9">>

UpChar(c) ==
  IF \E i \in 1..26 : LowerAlpha[i] = c
  THEN UpperAlpha[CHOOSE i \in 1..26 : LowerAlpha[i] = c]
  ELSE c

\* String.prototype.toUpperCase on a character sequence
UpperSeq(s) == [i \in 1..Len(s) |-> UpChar(s[i])]

\* String.prototype.includes
Includes(s, sub) ==
  \E i \in 1..(Len(s) - Len(sub) + 1) : SubSeq(s, i, i + Len(sub) - 1) = sub

\* String.prototype.endsWith
EndsWith(s, suf) ==
  Len(s) >= Len(suf) /\ SubSeq(s, Len(s) - Len(suf) + 1, Len(s)) = suf

RECURSIVE NatToChars(_)
NatToChars(n) ==
  IF n < 10 THEN <<Digits[n + 1]>>
  ELSE NatToChars(n \div 10) \o <<Digits[(n % 10) + 1]>>

S_UNKNOWN == <<"U","N","K","N","O","W","N">>
S_CRITICAL == <<"C","R","I","T","I","C","A","L">>
S_CRIT == <<"C","R","I","T">>
S_HIGH == <<"H","I","G","H">>
S_MEDIUM == <<"M","E","D","I","U","M">>
S_MED == <<"M","E","D">>
S_LOW == <<"L","O","W">>
S_INFO == <<"I","N","F","O">>
S_objectObject == <<"[","o","b","j","e","c","t"," ","O","b","j","e","c","t","]">>
S_true == <<"t","r","u","e">>
S_false == <<"f","a","l","s","e">>

\* x.toString(): a string value, or Throw
RECURSIVE ToStringJS(_)
ToStringJS(x) ==
  CASE x.t = "string" -> x
    [] x.t = "number" -> Str(NatToChars(x.v))
    [] x.t = "boolean" -> Str(IF x.v THEN S_true ELSE S_false)
    [] x.t = "array" ->
         \* Array.prototype.join(","): null and undefined elements print as ""
         LET RECURSIVE Join(_)
             Join(i) ==
               IF i > Len(x.v) THEN Str(<<>>)
               ELSE LET e == x.v[i]
                        h == IF IsNullish(e) THEN Str(<<>>) ELSE ToStringJS(e)
                        r == Join(i + 1)
                    IN IF IsThrow(h) \/ IsThrow(r) THEN Throw
                       ELSE IF i < Len(x.v) THEN Str(h.v \o <<",">> \o r.v) ELSE h
         IN Join(1)
    [] x.t = "object" ->
         \* an own "toString" property parsed from JSON is never callable
         IF HasKey(x, "toString") THEN Throw ELSE Str(S_objectObject)
    [] OTHER -> Throw

(***************************************************************************)
(* normalizeSeverity (ai-parser.js:62-71)                                  *)
(***************************************************************************)
normalizeSeverity_keepcase(severity) ==
  IF IsThrow(severity) THEN Throw
  ELSE IF ~Truthy(severity) THEN Str(S_UNKNOWN)
  ELSE LET c == ToStringJS(severity) IN
    IF IsThrow(c) THEN Throw
    ELSE LET s == UpperSeq(c.v) IN
      IF Includes(s, S_CRITICAL) \/ Includes(s, S_CRIT) THEN Str(S_CRITICAL)
      ELSE IF Includes(s, S_HIGH) THEN Str(S_HIGH)
      ELSE IF Includes(s, S_MEDIUM) \/ Includes(s, S_MED) THEN Str(S_MEDIUM)
      ELSE IF Includes(s, S_LOW) THEN Str(S_LOW)
      ELSE IF Includes(s, S_INFO) THEN Str(S_INFO)
      ELSE c

normalizeSeverity_highfirst(severity) ==
  IF IsThrow(severity) THEN Throw
  ELSE IF ~Truthy(severity) THEN Str(S_UNKNOWN)
  ELSE LET c == ToStringJS(severity) IN
    IF IsThrow(c) THEN Throw
    ELSE LET s == UpperSeq(c.v) IN
      IF Includes(s, S_HIGH) THEN Str(S_HIGH)
      ELSE IF Includes(s, S_CRITICAL) \/ Includes(s, S_CRIT) THEN Str(S_CRITICAL)
      ELSE IF Includes(s, S_MEDIUM) \/ Includes(s, S_MED) THEN Str(S_MEDIUM)
      ELSE IF Includes(s, S_LOW) THEN Str(S_LOW)
      ELSE IF Includes(s, S_INFO) THEN Str(S_INFO)
      ELSE Str(s)

normalizeSeverity_unknown(severity) ==
  IF IsThrow(severity) THEN Throw
  ELSE IF ~Truthy(severity) THEN Str(S_UNKNOWN)
  ELSE LET c == ToStringJS(severity) IN
    IF IsThrow(c) THEN Throw
    ELSE LET s == UpperSeq(c.v) IN
      IF Includes(s, S_CRITICAL) \/ Includes(s, S_CRIT) THEN Str(S_CRITICAL)
      ELSE IF Includes(s, S_HIGH) THEN Str(S_HIGH)
      ELSE IF Includes(s, S_MEDIUM) \/ Includes(s, S_MED) THEN Str(S_MEDIUM)
      ELSE IF Includes(s, S_LOW) THEN Str(S_LOW)
      ELSE IF Includes(s, S_INFO) THEN Str(S_INFO)
      ELSE Str(S_UNKNOWN)

normalizeSeverity_undefinedonly(severity) ==
  IF IsThrow(severity) THEN Throw
  ELSE IF severity = Undef THEN Str(S_UNKNOWN)
  ELSE LET c == IF IsNullish(severity) THEN Throw ELSE ToStringJS(severity) IN
    IF IsThrow(c) THEN Throw
    ELSE LET s == UpperSeq(c.v) IN
      IF Includes(s, S_CRITICAL) \/ Includes(s, S_CRIT) THEN Str(S_CRITICAL)
      ELSE IF Includes(s, S_HIGH) THEN Str(S_HIGH)
      ELSE IF Includes(s, S_MEDIUM) \/ Includes(s, S_MED) THEN Str(S_MEDIUM)
      ELSE IF Includes(s, S_LOW) THEN Str(S_LOW)
      ELSE IF Includes(s, S_INFO) THEN Str(S_INFO)
      ELSE Str(s)

normalizeSeverity(severity) ==
  IF IsThrow(severity) THEN Throw
  ELSE IF ~Truthy(severity) THEN Str(S_UNKNOWN)
  ELSE LET c == ToStringJS(severity) IN
    IF IsThrow(c) THEN Throw
    ELSE LET s == UpperSeq(c.v) IN
      IF Includes(s, S_CRITICAL) \/ Includes(s, S_CRIT) THEN Str(S_CRITICAL)
      ELSE IF Includes(s, S_HIGH) THEN Str(S_HIGH)
      ELSE IF Includes(s, S_MEDIUM) \/ Includes(s, S_MED) THEN Str(S_MEDIUM)
      ELSE IF Includes(s, S_LOW) THEN Str(S_LOW)
      ELSE IF Includes(s, S_INFO) THEN Str(S_INFO)
      ELSE Str(s)

(***************************************************************************)
(* Severity tokens fed to the classifier: texts made of up to MaxFrags     *)
(* fragments, and the non-string values a JSON document can carry.         *)
(***************************************************************************)
F_critical == <<"c","r","i","t","i","c","a","l">>
F_Crit == <<"C","r","i","t">>
F_high == <<"h","i","g","h">>
F_Med == <<"M","e","d">>
F_ium == <<"i","u","m">>
F_low == <<"l","o","w">>
F_Info == <<"I","n","f","o">>
F_banana == <<"b","a","n","a","n","a">>
F_unknown == <<"u","n","k","n","o","w","n">>
F_error == <<"e","r","r","o","r">>
F_slash == <<"/">>
F_space == <<" ">>

SeverityFragments ==
  {F_critical, F_Crit, F_high, S_HIGH, F_Med, F_ium, F_low, F_Info,
   F_banana, F_unknown, F_error, F_slash, F_space}

RECURSIVE FragmentTexts(_, _)
FragmentTexts(frags, n) ==
  IF n = 0 THEN {<<>>}
  ELSE LET shorter == FragmentTexts(frags, n - 1)
       IN shorter \cup {f \o s : f \in frags, s \in shorter}

SeverityInputs ==
  {Str(s) : s \in FragmentTexts(SeverityFragments, MaxFrags)}
    \cup {Undef, Null, Num(0), Num(5), Bool(FALSE), Bool(TRUE),
          Arr(<<>>), Arr(<<Str(F_high)>>), Arr(<<Str(F_low), Null, Num(7)>>),
          Obj(<<>>), Obj(<< <<"toString", Num(1)>> >>)}

Idle == [status |-> "idle"]
NoDir == [exists |-> FALSE, entries |-> <<>>]
NoDirs == [SAST |-> NoDir, SCA |-> NoDir, DAST |-> NoDir]

\* the exit code of a process that has not exited
NotExited == -1

\* the availability of the server before it has been asked
NoStatus == [available |-> FALSE, hasModel |-> FALSE]

\* the recommender has not been started
NoRecommender ==
  /\ version = "none"
  /\ promptDir = NoDir
  /\ promptFiles = <<>>
  /\ idx = 0
  /\ requests = <<>>
  /\ summary = [total_prompts |-> 0, processed |-> 0, failed |-> 0]
  /\ reports = <<>>
  /\ exitCode = NotExited
  /\ ollamaStatus = NoStatus

(***************************************************************************)
(* Classifier specification: one call of normalizeSeverity on any token.   *)
(***************************************************************************)
InitSev ==
  /\ written = <<>>
  /\ NoRecommender
  /\ pc = "classify"
  /\ raw \in SeverityInputs
  /\ sev = Undef
  /\ fmt = "none"
  /\ content = Undef
  /\ out = Idle
  /\ dirs = NoDirs
  /\ sastData = Idle
  /\ scaData = Idle
  /\ dastData = Idle

NormalizeSeverity ==
  /\ pc = "classify"
  /\ sev' = normalizeSeverity(raw)
  /\ pc' = "classified"
  /\ UNCHANGED <<raw, fmt, content, out, dirs, sastData, scaData, dastData, written, recVars>>

NextSev == NormalizeSeverity

SpecSev == InitSev /\ [][NextSev]_vars

\* the classifier's candidates in priority order, with the level each denotes
Candidates ==
  << <<S_CRITICAL, S_CRITICAL>>, <<S_CRIT, S_CRITICAL>>, <<S_HIGH, S_HIGH>>,
     <<S_MEDIUM, S_MEDIUM>>, <<S_MED, S_MEDIUM>>, <<S_LOW, S_LOW>>,
     <<S_INFO, S_INFO>> >>

MatchingCandidates(u) == {i \in 1..Len(Candidates) : Includes(u, Candidates[i][1])}

FirstCandidateLevel(u) ==
  LET m == MatchingCandidates(u)
  IN IF m = {} THEN u
     ELSE Candidates[CHOOSE i \in m : \A j \in m : i <= j][2]

\* the text of a present token: of a string itself, of another truthy value
\* its toString()
Printable(x) == Truthy(x) /\ ~IsThrow(ToStringJS(x))
UpperText(x) == UpperSeq(ToStringJS(x).v)

\* C3: for every non-empty input the classifier returns the level of the first
\* candidate, in the order CRITICAL/CRIT, HIGH, MEDIUM/MED, LOW, INFO, that is
\* a substring of the upper-cased text, wherever it occurs (so a text holding
\* both CRITICAL and HIGH gives CRITICAL), and the upper-cased text itself
\* when no candidate is contained.
C3_PriorityLaw ==
  (pc = "classified" /\ Printable(raw)) =>
    /\ sev = Str(FirstCandidateLevel(UpperText(raw)))
    /\ (Includes(UpperText(raw), S_CRITICAL) /\ Includes(UpperText(raw), S_HIGH))
         => sev = Str(S_CRITICAL)
    /\ MatchingCandidates(UpperText(raw)) = {} => sev = Str(UpperText(raw))

C3_Witness ==
  /\ pc = "classified"
  /\ raw = Str(F_high \o F_slash \o F_critical)
  /\ sev = Str(S_CRITICAL)

\* C4 as stated: UNKNOWN is returned exactly for an absent or empty token.
C4_UnknownOnlyForAbsent ==
  pc = "classified" => (sev = Str(S_UNKNOWN) <=> raw \in {Undef, Str(<<>>)})

\* C4 amended: UNKNOWN is returned exactly when the token is falsy (absent,
\* empty, null, 0, false) or its upper-cased text is itself UNKNOWN.
C4_UnknownIffFalsyOrLiteral ==
  pc = "classified" =>
    (sev = Str(S_UNKNOWN) <=>
       \/ ~Truthy(raw)
       \/ /\ ~IsThrow(ToStringJS(raw))
          /\ UpperSeq(ToStringJS(raw).v) = S_UNKNOWN)

C4_Witness ==
  /\ pc = "classified"
  /\ raw = Str(F_unknown)
  /\ sev = Str(S_UNKNOWN)

(***************************************************************************)
(* File contents.  A content is either a JSON text, carried as the value   *)
(* JSON.parse yields for it, or a plain text carried as its characters.    *)
(***************************************************************************)
JsonText(doc) == [kind |-> "json", doc |-> doc]
PlainText(chars) == [kind |-> "text", chars |-> chars]

IsDigit(c) == \E i \in 1..10 : Digits[i] = c
IsJsonSpace(c) == c \in {" ", "\n"}

RECURSIVE CharsToNat(_)
CharsToNat(s) ==
  IF s = <<>> THEN 0
  ELSE 10 * CharsToNat(SubSeq(s, 1, Len(s) - 1))
         + ((CHOOSE i \in 1..10 : Digits[i] = s[Len(s)]) - 1)

\* JSON.parse: the document of a JSON text; of a plain text only an unsigned
\* integer literal between optional white space is JSON, anything else is a
\* SyntaxError
JSONParse(c) ==
  IF c.kind = "json" THEN c.doc
  ELSE LET s == c.chars
           body == {i \in 1..Len(s) : ~IsJsonSpace(s[i])}
       IN IF body = {} THEN Throw
          ELSE LET lo == CHOOSE i \in body : \A j \in body : i <= j
                   hi == CHOOSE i \in body : \A j \in body : i >= j
               IN IF /\ \A i \in lo..hi : IsDigit(s[i])
                     /\ (hi > lo => s[lo] # "0")
                  THEN Num(CharsToNat(SubSeq(s, lo, hi)))
                  ELSE Throw

\* a === b on values read from two places of one parsed document
StrictEq(a, b) == a.t = b.t /\ a.t \notin {"array", "object"} /\ a = b

\* a parser call either returns a record sequence or lets an exception escape
Returned(recs) == [status |-> "returned", value |-> recs]
Raised == [status |-> "raised"]

VulnRecord(id, name, severity, file, description, recommendation) ==
  [id |-> id, name |-> name, severity |-> severity, file |-> file,
   description |-> description, recommendation |-> recommendation]

FieldNames == {"id", "name", "severity", "file", "description", "recommendation"}

\* evaluating the object literal of a record raised
RecordRaised(r) == \E f \in FieldNames : IsThrow(r[f])

RECURSIVE Flatten(_)
Flatten(ss) == IF ss = <<>> THEN <<>> ELSE Head(ss) \o Flatten(Tail(ss))

\* the outcome of a forEach whose i-th iteration yields outcomes[i]
ForEachOutcome(outcomes) ==
  IF \E i \in 1..Len(outcomes) : outcomes[i].status = "raised" THEN Raised
  ELSE Returned(Flatten([i \in 1..Len(outcomes) |-> outcomes[i].value]))

PushOutcome_partial(recs) ==
  LET bad == {i \in 1..Len(recs) : RecordRaised(recs[i])}
  IN IF bad = {} THEN Returned(recs)
     ELSE Returned(SubSeq(recs, 1, (CHOOSE i \in bad : \A j \in bad : i <= j) - 1))

\* the outcome of pushing one record per element
PushOutcome(recs) ==
  IF \E i \in 1..Len(recs) : RecordRaised(recs[i]) THEN Raised
  ELSE Returned(recs)

\* try { body } catch (e) { return [] }
TryCatch_rethrow(body) == body

TryCatch(body) == IF body.status = "raised" THEN Returned(<<>>) ELSE body

(***************************************************************************)
(* parseSARIF (ai-parser.js:80-110)                                        *)
(***************************************************************************)
S_NA == <<"N","/","A">>
S_unknown == <<"u","n","k","n","o","w","n">>
S_UnknownVuln == <<"U","n","k","n","o","w","n"," ","v","u","l","n","e","r","a","b","i","l","i","t","y">>
S_NoDescription == <<"N","o"," ","d","e","s","c","r","i","p","t","i","o","n">>
S_NoRecommendation == <<"N","o"," ","r","e","c","o","m","m","e","n","d","a","t","i","o","n"," ","a","v","a","i","l","a","b","l","e">>

\* rules?.find(r => r.id === result.ruleId)
FindRule_last(rules, result) ==
  CASE IsThrow(rules) -> Throw
    [] IsNullish(rules) -> Undef
    [] ~IsArray(rules) -> Throw
    [] OTHER ->
         LET n == Len(rules.v)
             hit(i) == ~IsNullish(rules.v[i]) /\ ~IsNullish(result)
                         /\ StrictEq(Get(rules.v[i], "id"), Get(result, "ruleId"))
             bad(i) == IsNullish(rules.v[i]) \/ IsNullish(result)
             stops == {i \in 1..n : hit(i) \/ bad(i)}
         IN IF stops = {} THEN Undef
            ELSE LET k == CHOOSE i \in stops : \A j \in stops : i >= j
                 IN IF bad(k) THEN Throw ELSE rules.v[k]

FindRule(rules, result) ==
  CASE IsThrow(rules) -> Throw
    [] IsNullish(rules) -> Undef
    [] ~IsArray(rules) -> Throw
    [] OTHER ->
         LET n == Len(rules.v)
             hit(i) == ~IsNullish(rules.v[i]) /\ ~IsNullish(result)
                         /\ StrictEq(Get(rules.v[i], "id"), Get(result, "ruleId"))
             bad(i) == IsNullish(rules.v[i]) \/ IsNullish(result)
             stops == {i \in 1..n : hit(i) \/ bad(i)}
         IN IF stops = {} THEN Undef
            ELSE LET k == CHOOSE i \in stops : \A j \in stops : i <= j
                 IN IF bad(k) THEN Throw ELSE rules.v[k]

SarifRecord(run, result) ==
  LET rule == Or(FindRule(OptGet(OptGet(Get(run, "tool"), "driver"), "rules"), result),
                 Obj(<<>>))
      location ==
        Or(OptGet(OptGet(OptGet(OptFirst(Get(result, "locations")),
                                "physicalLocation"), "artifactLocation"), "uri"),
           Str(S_unknown))
      msgText == OptGet(Get(result, "message"), "text")
  IN VulnRecord(
       Or(Get(result, "ruleId"), Str(S_NA)),
       Or(Get(rule, "name"), Or(msgText, Str(S_UnknownVuln))),
       normalizeSeverity(Or(Get(result, "level"),
                            OptGet(Get(rule, "defaultConfiguration"), "level"))),
       location,
       Or(OptGet(Get(rule, "fullDescription"), "text"),
          Or(OptGet(Get(rule, "shortDescription"), "text"),
             Or(msgText, Str(S_NoDescription)))),
       Or(OptGet(Get(rule, "help"), "text"),
          Or(Get(rule, "helpUri"), Str(S_NoRecommendation))))

SarifRun(run) ==
  LET results == Get(run, "results")
  IN IF IsThrow(results) THEN Raised
     ELSE IF Truthy(results) /\ IsArray(results)
     THEN PushOutcome([i \in 1..Len(results.v) |-> SarifRecord(run, results.v[i])])
     ELSE Returned(<<>>)

SarifBody(c) ==
  LET sarif == JSONParse(c)
      runs == Get(sarif, "runs")
  IN IF IsThrow(runs) THEN Raised
     ELSE IF Truthy(runs) /\ IsArray(runs)
     THEN ForEachOutcome([i \in 1..Len(runs.v) |-> SarifRun(runs.v[i])])
     ELSE Returned(<<>>)

parseSARIF(c) == TryCatch(SarifBody(c))

(***************************************************************************)
(* parseSCAJSON (ai-parser.js:167-211)                                     *)
(***************************************************************************)
S_UpdateLatest == <<"U","p","d","a","t","e"," ","t","o"," ","l","a","t","e","s","t"," ","v","e","r","s","i","o","n">>
S_DepVuln == <<"D","e","p","e","n","d","e","n","c","y"," ","v","u","l","n","e","r","a","b","i","l","i","t","y">>
S_SeePackage == <<"S","e","e"," ","p","a","c","k","a","g","e"," ","f","o","r"," ","d","e","t","a","i","l","s">>
S_UpdateAvailable == <<"U","p","d","a","t","e"," ","a","v","a","i","l","a","b","l","e">>
S_NoFix == <<"N","o"," ","f","i","x"," ","a","v","a","i","l","a","b","l","e">>
S_lodash == <<"l","o","d","a","s","h">>
S_express == <<"e","x","p","r","e","s","s">>

\* the text of a property name that is used as a value (file: pkg)
KeyChars(k) ==
  CASE k = "lodash" -> S_lodash
    [] k = "express" -> S_express
    [] OTHER -> <<>>

\* typeof v === 'object' (true of null and of arrays)
TypeofObject(v) == v.t \in {"object", "array", "null"}

ScaArrayRecord_cvefirst(vuln) ==
  VulnRecord(
    Or(Get(vuln, "cve"), Or(Get(vuln, "id"), Str(S_NA))),
    Or(Get(vuln, "title"), Or(Get(vuln, "name"), Str(S_UnknownVuln))),
    normalizeSeverity(Get(vuln, "severity")),
    Or(Get(vuln, "package"),
       Or(Get(vuln, "library"), Or(Get(vuln, "dependency"), Str(S_unknown)))),
    Or(Get(vuln, "description"), Str(S_NoDescription)),
    Or(Get(vuln, "recommendation"), Or(Get(vuln, "fix"), Str(S_UpdateLatest))))

ScaArrayRecord(vuln) ==
  VulnRecord(
    Or(Get(vuln, "id"), Or(Get(vuln, "cve"), Str(S_NA))),
    Or(Get(vuln, "title"), Or(Get(vuln, "name"), Str(S_UnknownVuln))),
    normalizeSeverity(Get(vuln, "severity")),
    Or(Get(vuln, "package"),
       Or(Get(vuln, "library"), Or(Get(vuln, "dependency"), Str(S_unknown)))),
    Or(Get(vuln, "description"), Str(S_NoDescription)),
    Or(Get(vuln, "recommendation"), Or(Get(vuln, "fix"), Str(S_UpdateLatest))))

ScaViaRecord(pkg, vuln, v) ==
  VulnRecord(
    Or(Get(v, "cve"), Or(Get(v, "id"), Str(S_NA))),
    Or(Get(v, "title"), Str(S_DepVuln)),
    normalizeSeverity(Get(v, "severity")),
    Str(KeyChars(pkg)),
    Or(Get(v, "url"), Str(S_SeePackage)),
    LET fix == Get(vuln, "fixAvailable")
    IN IF IsThrow(fix) THEN Throw
       ELSE IF Truthy(fix) THEN Str(S_UpdateAvailable) ELSE Str(S_NoFix))

\* one package of the keyed shape: its via entries of type object
ScaPackage(pkg, vuln) ==
  LET via == Get(vuln, "via")
  IN IF IsThrow(via) THEN Raised
     ELSE IF Truthy(via) /\ IsArray(via)
     THEN LET objs == SelectSeq(via.v, TypeofObject)
          IN PushOutcome([i \in 1..Len(objs) |-> ScaViaRecord(pkg, vuln, objs[i])])
     ELSE Returned(<<>>)

\* Object.keys of a value whose own keys are not integer-like: the keys of an
\* object in insertion order, none for a number or a boolean
ObjectKeys(x) ==
  IF x.t = "object"
  THEN LET firsts == SelectSeq([i \in 1..Len(x.v) |-> i],
                       LAMBDA i : \A j \in 1..(i-1) : x.v[j][1] # x.v[i][1])
       IN [n \in 1..Len(firsts) |-> x.v[firsts[n]][1]]
  ELSE <<>>

ScaBody(c) ==
  LET data == JSONParse(c)
      vulns == Get(data, "vulnerabilities")
  IN IF IsThrow(vulns) THEN Raised
     ELSE IF Truthy(vulns) /\ IsArray(vulns)
     THEN PushOutcome([i \in 1..Len(vulns.v) |-> ScaArrayRecord(vulns.v[i])])
     ELSE IF Truthy(vulns)
     THEN LET keys == ObjectKeys(vulns)
          IN ForEachOutcome([i \in 1..Len(keys) |->
                               ScaPackage(keys[i], Get(vulns, keys[i]))])
     ELSE Returned(<<>>)

parseSCAJSON(c) == TryCatch(ScaBody(c))

(***************************************************************************)
(* parseDASTJSON (ai-parser.js:268-309)                                    *)
(***************************************************************************)
\* s.split(' ')[0]: the characters before the first space
FirstSpaceToken(s) ==
  LET sp == {i \in 1..Len(s) : s[i] = " "}
  IN IF sp = {} THEN s
     ELSE SubSeq(s, 1, (CHOOSE i \in sp : \A j \in sp : i <= j) - 1)

\* alert.riskdesc?.split(' ')[0]
RiskdescToken(riskdesc) ==
  CASE IsThrow(riskdesc) -> Throw
    [] IsNullish(riskdesc) -> Undef
    [] IsStr(riskdesc) -> Str(FirstSpaceToken(riskdesc.v))
    [] OTHER -> Throw

DastAlertRecord(site, alert) ==
  VulnRecord(
    Or(Get(alert, "pluginid"), Or(Get(alert, "id"), Str(S_NA))),
    Or(Get(alert, "name"), Or(Get(alert, "alert"), Str(S_UnknownVuln))),
    normalizeSeverity(Or(RiskdescToken(Get(alert, "riskdesc")), Get(alert, "risk"))),
    Or(Get(alert, "url"), Or(Get(site, "name"), Str(S_unknown))),
    Or(Get(alert, "desc"), Or(Get(alert, "description"), Str(S_NoDescription))),
    Or(Get(alert, "solution"),
       Or(Get(alert, "recommendation"), Str(S_NoRecommendation))))

DastSite(site) ==
  LET alerts == Get(site, "alerts")
  IN IF IsThrow(alerts) THEN Raised
     ELSE IF Truthy(alerts) /\ IsArray(alerts)
     THEN PushOutcome([i \in 1..Len(alerts.v) |-> DastAlertRecord(site, alerts.v[i])])
     ELSE Returned(<<>>)

DastGenericRecord(vuln) ==
  VulnRecord(
    Or(Get(vuln, "id"), Str(S_NA)),
    Or(Get(vuln, "name"), Or(Get(vuln, "title"), Str(S_UnknownVuln))),
    normalizeSeverity(Get(vuln, "severity")),
    Or(Get(vuln, "url"), Or(Get(vuln, "endpoint"), Str(S_unknown))),
    Or(Get(vuln, "description"), Str(S_NoDescription)),
    Or(Get(vuln, "recommendation"),
       Or(Get(vuln, "solution"), Str(S_NoRecommendation))))

DastBody_fallthrough(c) ==
  LET data == JSONParse(c)
      site == Get(data, "site")
      vulns == Get(data, "vulnerabilities")
      fromSites == IF Truthy(site) /\ IsArray(site)
                   THEN ForEachOutcome([i \in 1..Len(site.v) |-> DastSite(site.v[i])])
                   ELSE Returned(<<>>)
  IN IF IsThrow(site) THEN Raised
     ELSE IF fromSites # Returned(<<>>) THEN fromSites
     ELSE IF Truthy(vulns) /\ IsArray(vulns)
     THEN PushOutcome([i \in 1..Len(vulns.v) |-> DastGenericRecord(vulns.v[i])])
     ELSE Returned(<<>>)

DastBody(c) ==
  LET data == JSONParse(c)
      site == Get(data, "site")
  IN IF IsThrow(site) THEN Raised
     ELSE IF Truthy(site) /\ IsArray(site)
     THEN ForEachOutcome([i \in 1..Len(site.v) |-> DastSite(site.v[i])])
     ELSE LET vulns == Get(data, "vulnerabilities")
          IN IF Truthy(vulns) /\ IsArray(vulns)
             THEN PushOutcome([i \in 1..Len(vulns.v) |-> DastGenericRecord(vulns.v[i])])
             ELSE Returned(<<>>)

parseDASTJSON(c) == TryCatch(DastBody(c))

(***************************************************************************)
(* Regular expressions of the text parsers.                                *)
(***************************************************************************)
\* the literal lit matches s at position i, ignoring case (flag i)
MatchesAtCI(s, i, lit) ==
  /\ i + Len(lit) - 1 <= Len(s)
  /\ UpperSeq(SubSeq(s, i, i + Len(lit) - 1)) = lit

\* \d+ taken greedily from position i: the position after the last digit
RECURSIVE DigitsEnd(_, _)
DigitsEnd(s, i) == IF i <= Len(s) /\ IsDigit(s[i]) THEN DigitsEnd(s, i + 1) ELSE i

S_CVEdash == <<"C","V","E","-">>
S_CWEdash == <<"C","W","E","-">>

CveAt_anydigits(s, i) ==
  /\ MatchesAtCI(s, i, S_CVEdash)
  /\ i + 4 <= Len(s)
  /\ IsDigit(s[i + 4])
  /\ DigitsEnd(s, i + 4) + 1 <= Len(s)
  /\ s[DigitsEnd(s, i + 4)] = "-"
  /\ IsDigit(s[DigitsEnd(s, i + 4) + 1])

\* /CVE-\d{4}-\d+/i matches s at position i
CveAt(s, i) ==
  /\ MatchesAtCI(s, i, S_CVEdash)
  /\ i + 9 <= Len(s)
  /\ \A k \in (i+4)..(i+7) : IsDigit(s[k])
  /\ s[i + 8] = "-"
  /\ IsDigit(s[i + 9])

\* line.match(/CVE-\d{4}-\d+/i): the leftmost match as <<text>>, or <<>>
CveMatch(s) ==
  LET at == {i \in 1..Len(s) : CveAt(s, i)}
  IN IF at = {} THEN <<>>
     ELSE LET i == CHOOSE i \in at : \A j \in at : i <= j
          IN <<SubSeq(s, i, DigitsEnd(s, i + 9) - 1)>>

SeverityWords == <<S_CRITICAL, S_HIGH, S_MEDIUM, S_LOW>>

\* /(CRITICAL|HIGH|MEDIUM|LOW)/i at position i: the length matched, 0 if none
SeverityWordAt(s, i) ==
  LET ws == {w \in 1..Len(SeverityWords) : MatchesAtCI(s, i, SeverityWords[w])}
  IN IF ws = {} THEN 0
     ELSE Len(SeverityWords[CHOOSE w \in ws : \A x \in ws : w <= x])

\* line.match(/(CRITICAL|HIGH|MEDIUM|LOW)/i): group 1 of the leftmost match
SeverityMatch(s) ==
  LET at == {i \in 1..Len(s) : SeverityWordAt(s, i) > 0}
  IN IF at = {} THEN <<>>
     ELSE LET i == CHOOSE i \in at : \A j \in at : i <= j
          IN <<SubSeq(s, i, i + SeverityWordAt(s, i) - 1)>>

\* content.matchAll(/(CRITICAL|HIGH|MEDIUM|LOW)/gi): group 1 of every match,
\* each search resuming after the previous match
RECURSIVE SeverityMatchAll(_, _)
SeverityMatchAll(s, i) ==
  IF i > Len(s) THEN <<>>
  ELSE LET n == SeverityWordAt(s, i)
       IN IF n > 0 THEN <<SubSeq(s, i, i + n - 1)>> \o SeverityMatchAll(s, i + n)
          ELSE SeverityMatchAll(s, i + 1)

\* content.matchAll(/CWE-(\d+)/gi): group 1 of every match
RECURSIVE CweMatchAll(_, _)
CweMatchAll(s, i) ==
  IF i > Len(s) THEN <<>>
  ELSE IF MatchesAtCI(s, i, S_CWEdash) /\ i + 4 <= Len(s) /\ IsDigit(s[i + 4])
       THEN <<SubSeq(s, i + 4, DigitsEnd(s, i + 4) - 1)>>
              \o CweMatchAll(s, DigitsEnd(s, i + 4))
       ELSE CweMatchAll(s, i + 1)

\* content.split('\n')
RECURSIVE SplitLines(_)
SplitLines(s) ==
  LET nl == {i \in 1..Len(s) : s[i] = "\n"}
  IN IF nl = {} THEN <<s>>
     ELSE LET i == CHOOSE i \in nl : \A j \in nl : i <= j
          IN <<SubSeq(s, 1, i - 1)>> \o SplitLines(SubSeq(s, i + 1, Len(s)))

IsSpace(c) == c \in {" ", "\t", "\r", "\n"}

\* String.prototype.trim
Trim(s) ==
  LET ink == {i \in 1..Len(s) : ~IsSpace(s[i])}
  IN IF ink = {} THEN <<>>
     ELSE SubSeq(s, CHOOSE i \in ink : \A j \in ink : i <= j,
                    CHOOSE i \in ink : \A j \in ink : i >= j)

Min(a, b) == IF a <= b THEN a ELSE b

(***************************************************************************)
(* parseHTML (ai-parser.js:115-137)                                        *)
(***************************************************************************)
S_VulnCWE == <<"V","u","l","n","e","r","a","b","i","l","i","t","y"," ","C","W","E","-">>
S_SeeHTML == <<"S","e","e"," ","H","T","M","L"," ","r","e","p","o","r","t">>
S_ExtractedHTML == <<"E","x","t","r","a","c","t","e","d"," ","f","r","o","m"," ","H","T","M","L"," ","r","e","p","o","r","t">>
S_ReferHTML == <<"R","e","f","e","r"," ","t","o"," ","H","T","M","L"," ","r","e","p","o","r","t"," ","f","o","r"," ","d","e","t","a","i","l","s">>

parseHTML(c) ==
  LET cwes == CweMatchAll(c.chars, 1)
      severities == SeverityMatchAll(c.chars, 1)
  IN PushOutcome([i \in 1..Min(Len(cwes), Len(severities)) |->
       VulnRecord(Str(S_CWEdash \o cwes[i]),
                  Str(S_VulnCWE \o cwes[i]),
                  normalizeSeverity(Str(severities[i])),
                  Str(S_SeeHTML),
                  Str(S_ExtractedHTML),
                  Str(S_ReferHTML))])

(***************************************************************************)
(* parseSCATXT (ai-parser.js:216-238)                                      *)
(***************************************************************************)
S_Vuln == <<"V","u","l","n","e","r","a","b","i","l","i","t","y"," ">>
S_SeeTXT == <<"S","e","e"," ","T","X","T"," ","r","e","p","o","r","t">>
S_UpdateAffected == <<"U","p","d","a","t","e"," ","a","f","f","e","c","t","e","d"," ","p","a","c","k","a","g","e">>

\* the records one line contributes: none without a CVE token
TxtLine(line) ==
  LET cveMatch == CveMatch(line)
      severityMatch == SeverityMatch(line)
  IN IF cveMatch # <<>>
     THEN <<VulnRecord(Str(cveMatch[1]),
                       Str(S_Vuln \o cveMatch[1]),
                       IF severityMatch # <<>>
                       THEN normalizeSeverity(Str(severityMatch[1]))
                       ELSE Str(S_UNKNOWN),
                       Str(S_SeeTXT),
                       Str(Trim(line)),
                       Str(S_UpdateAffected))>>
     ELSE <<>>

parseSCATXT(c) ==
  LET lines == SplitLines(c.chars)
  IN PushOutcome(Flatten([i \in 1..Len(lines) |-> TxtLine(lines[i])]))

(***************************************************************************)
(* Documents and texts handed to the parsers.                              *)
(***************************************************************************)
S_CWE79 == <<"C","W","E","-","7","9">>
S_XSS == <<"X","S","S">>
S_SanitizeInput == <<"S","a","n","i","t","i","z","e"," ","i","n","p","u","t">>
S_error == <<"e","r","r","o","r">>
S_warning == <<"w","a","r","n","i","n","g">>
S_note == <<"n","o","t","e">>
S_High == <<"H","i","g","h">>
S_msg == <<"m","s","g">>
S_ajs == <<"a",".","j","s">>
S_Other == <<"O","t","h","e","r">>
S_helpUri == <<"h","t","t","p",":","/","/","h">>
S_full == <<"f","u","l","l">>
S_short == <<"s","h","o","r","t">>
S_Generic == <<"G","e","n","e","r","i","c">>
S_CVE1 == <<"C","V","E","-","2","0","2","1","-","1","2","3","4">>
S_GHSA == <<"G","H","S","A","-","1">>
S_title == <<"t","i","t","l","e">>
S_name == <<"n","a","m","e">>
S_pkg == <<"p","k","g">>
S_lib == <<"l","i","b">>
S_dep == <<"d","e","p">>
S_desc == <<"d","e","s","c">>
S_fixit == <<"f","i","x","-","i","t">>
S_rec == <<"r","e","c">>
S_moderate == <<"m","o","d","e","r","a","t","e">>
S_url == <<"h","t","t","p",":","/","/","u">>
S_site == <<"s","i","t","e">>
S_MediumHigh == <<"M","e","d","i","u","m"," ","(","H","i","g","h",")">>
S_LowTabHigh == <<"L","o","w","\t","H","i","g","h">>
S_SpLow == <<" ","L","o","w">>
S_Low == <<"L","o","w">>
S_p10 == <<"1","0","0","1","6">>
S_sol == <<"s","o","l">>
S_ep == <<"/","e","p">>

\* a property that is left out when its value is undefined
Opt(k, v) == IF v = Undef THEN <<>> ELSE << <<k, v>> >>

RECURSIVE SeqsUpTo(_, _)
SeqsUpTo(S, n) ==
  IF n = 0 THEN {<<>>}
  ELSE LET shorter == SeqsUpTo(S, n - 1)
       IN shorter \cup {<<x>> \o s : x \in S, s \in {t \in shorter : Len(t) = n - 1}}

SarifLocations ==
  Arr(<<Obj(<< <<"physicalLocation",
       Obj(<< <<"artifactLocation", Obj(<< <<"uri", Str(S_ajs)>> >>)>> >>)>> >>)>>)

SarifMessage ==
  << <<"message", Obj(<< <<"text", Str(S_msg)>> >>)>>, <<"locations", SarifLocations>> >>

SarifResults ==
  {Null, Num(5), Obj(<< <<"level", Str(S_error)>> >> \o SarifMessage)}
    \cup {Obj(Opt("ruleId", r) \o m) :
            r \in {Undef, Str(S_CWE79), Num(79)}, m \in {<<>>, SarifMessage}}
    \cup {Obj(<< <<"ruleId", Str(S_CWE79)>>, <<"level", Str(l)>> >>) :
            l \in {S_error, S_warning, S_note, S_High}}

RuleXSS ==
  Obj(<< <<"id", Str(S_CWE79)>>, <<"name", Str(S_XSS)>>,
         <<"help", Obj(<< <<"text", Str(S_SanitizeInput)>> >>)>> >>)
RuleDup ==
  Obj(<< <<"id", Str(S_CWE79)>>, <<"name", Str(S_Other)>>,
         <<"helpUri", Str(S_helpUri)>>,
         <<"fullDescription", Obj(<< <<"text", Str(S_full)>> >>)>>,
         <<"defaultConfiguration", Obj(<< <<"level", Str(S_High)>> >>)>> >>)
RuleNoId ==
  Obj(<< <<"name", Str(S_Generic)>>,
         <<"shortDescription", Obj(<< <<"text", Str(S_short)>> >>)>> >>)

ToolOf(rules) == << <<"tool", Obj(<< <<"driver", Obj(<< <<"rules", rules>> >>)>> >>)>> >>

SarifTools ==
  {<<>>, ToolOf(Arr(<<RuleXSS>>)), ToolOf(Arr(<<RuleXSS, RuleDup>>)),
   ToolOf(Arr(<<RuleDup, RuleXSS>>)), ToolOf(Arr(<<RuleNoId, RuleXSS>>)),
   ToolOf(Arr(<<Null, RuleXSS>>)), ToolOf(Obj(<<>>))}

SarifRuns ==
  {Obj(tool \o << <<"results", Arr(rs)>> >>) :
     tool \in SarifTools, rs \in SeqsUpTo(SarifResults, MaxResults)}

SarifFewRuns ==
  {Null, Obj(<<>>), Obj(<< <<"results", Obj(<<>>)>> >>),
   Obj(<< <<"results", Arr(<<Obj(<< <<"ruleId", Str(S_CWE79)>>,
                                    <<"level", Str(S_error)>> >>)>>)>> >>),
   Obj(ToolOf(Arr(<<RuleXSS>>)) \o
       << <<"results", Arr(<<Obj(<< <<"ruleId", Str(S_CWE79)>> >>),
                             Obj(<< <<"level", Str(S_note)>> >>)>>)>> >>)}

SarifDocs ==
  {Obj(<< <<"runs", Arr(<<run>>)>> >>) : run \in SarifRuns}
    \cup {Obj(<< <<"runs", Arr(<<a, b>>)>> >>) : a \in SarifFewRuns, b \in SarifFewRuns}
    \cup {Null, Num(7), Obj(<<>>), Obj(<< <<"runs", Null>> >>),
          Obj(<< <<"runs", Obj(<<>>)>> >>), Arr(<<>>)}

ScaFindings ==
  {Null, Str(S_name), Obj(<<>>),
   Obj(<< <<"id", Str(S_GHSA)>>, <<"cve", Str(S_CVE1)>>, <<"severity", Str(S_High)>> >>),
   Obj(<< <<"cve", Str(S_CVE1)>>, <<"severity", Str(S_moderate)>> >>),
   Obj(<< <<"id", Num(7)>>, <<"fix", Bool(TRUE)>>, <<"severity", Num(3)>> >>),
   Obj(<< <<"title", Str(S_title)>>, <<"name", Str(S_name)>> >>),
   Obj(<< <<"name", Str(S_name)>>, <<"description", Str(S_desc)>> >>),
   Obj(<< <<"package", Str(S_pkg)>>, <<"library", Str(S_lib)>>,
          <<"dependency", Str(S_dep)>> >>),
   Obj(<< <<"library", Str(S_lib)>>, <<"dependency", Str(S_dep)>>,
          <<"recommendation", Str(S_rec)>>, <<"fix", Str(S_fixit)>> >>),
   Obj(<< <<"dependency", Str(S_dep)>>, <<"fix", Str(S_fixit)>>,
          <<"severity", Str(<<>>)>> >>),
   Obj(<< <<"id", Str(<<>>)>>, <<"cve", Str(S_CVE1)>>,
          <<"description", Arr(<<Str(S_desc)>>)>> >>)}

ScaVia ==
  {Null, Str(S_express), Arr(<<>>),
   Obj(<< <<"cve", Str(S_CVE1)>>, <<"severity", Str(F_high)>> >>),
   Obj(<< <<"id", Str(S_GHSA)>>, <<"title", Str(S_title)>>,
          <<"url", Str(S_url)>>, <<"severity", Str(S_moderate)>> >>),
   Obj(<< <<"source", Num(1234)>>, <<"id", Num(1234)>> >>)}

ScaAdvisories ==
  {Null, Str(S_name), Obj(<<>>), Obj(<< <<"via", Str(S_express)>> >>)}
    \cup {Obj(<< <<"via", Arr(via)>> >> \o Opt("fixAvailable", fix)) :
            via \in SeqsUpTo(ScaVia, MaxResults),
            fix \in {Undef, Bool(TRUE), Bool(FALSE), Obj(<<>>)}}

ScaDocs ==
  {Obj(<< <<"vulnerabilities", Arr(fs)>> >>) : fs \in SeqsUpTo(ScaFindings, MaxResults)}
    \cup {Obj(<< <<"vulnerabilities", Obj(<< <<"lodash", a>> >>)>> >>) :
            a \in ScaAdvisories}
    \cup {Obj(<< <<"vulnerabilities",
                   Obj(<< <<"express", a>>, <<"lodash", b>> >>)>> >>) :
            a \in {x \in ScaAdvisories : x.t # "object" \/ Len(x.v) < 2
                                           \/ Len(x.v[1][2].v) < 2},
            b \in {Null, Obj(<< <<"via", Arr(<<Obj(<< <<"cve", Str(S_CVE1)>> >>)>>)>> >>)}}
    \cup {Null, Num(7), Obj(<<>>), Obj(<< <<"vulnerabilities", Null>> >>),
          Obj(<< <<"vulnerabilities", Str(S_name)>> >>),
          Obj(<< <<"vulnerabilities", Num(3)>> >>)}

DastAlerts ==
  {Null, Num(5), Obj(<<>>),
   Obj(<< <<"pluginid", Str(S_p10)>>, <<"id", Str(S_GHSA)>>, <<"name", Str(S_name)>>,
          <<"riskdesc", Str(S_MediumHigh)>>, <<"risk", Str(S_Low)>>,
          <<"url", Str(S_url)>>, <<"desc", Str(S_desc)>>, <<"solution", Str(S_sol)>> >>),
   Obj(<< <<"id", Str(S_GHSA)>>, <<"alert", Str(S_title)>>,
          <<"riskdesc", Str(S_LowTabHigh)>>, <<"description", Str(S_desc)>>,
          <<"recommendation", Str(S_rec)>> >>),
   Obj(<< <<"riskdesc", Str(S_SpLow)>>, <<"risk", Str(S_High)>> >>),
   Obj(<< <<"riskdesc", Str(S_SpLow)>> >>),
   Obj(<< <<"risk", Str(S_moderate)>>, <<"url", Num(8080)>> >>),
   Obj(<< <<"pluginid", Num(10016)>>, <<"riskdesc", Num(3)>> >>),
   Obj(<< <<"riskdesc", Arr(<<Str(S_High)>>)>>, <<"risk", Str(S_High)>> >>)}

DastSites ==
  {Null, Obj(<<>>), Obj(<< <<"alerts", Obj(<<>>)>> >>)}
    \cup {Obj(Opt("name", n) \o << <<"alerts", Arr(as)>> >>) :
            n \in {Undef, Str(S_site)}, as \in SeqsUpTo(DastAlerts, MaxResults)}

DastGeneric ==
  {Null,
   Obj(<< <<"id", Str(S_GHSA)>>, <<"name", Str(S_name)>>, <<"title", Str(S_title)>>,
          <<"severity", Str(S_High)>>, <<"url", Str(S_url)>>, <<"endpoint", Str(S_ep)>>,
          <<"description", Str(S_desc)>>, <<"solution", Str(S_sol)>> >>),
   Obj(<< <<"title", Str(S_title)>>, <<"endpoint", Str(S_ep)>>,
          <<"severity", Str(S_note)>>, <<"recommendation", Str(S_rec)>> >>),
   Obj(<< <<"id", Num(7)>> >>)}

DastDocs ==
  {Obj(<< <<"site", Arr(<<s>>)>> >> \o v) :
     s \in DastSites,
     v \in {<<>>, << <<"vulnerabilities", Arr(<<Obj(<< <<"id", Str(S_GHSA)>> >>)>>)>> >>}}
    \cup {Obj(<< <<"site", Arr(<<a, b>>)>> >>) :
            a \in {s \in DastSites : s.t # "object" \/ Len(s.v) = 0
                                       \/ Len(s.v[Len(s.v)][2].v) < 2},
            b \in {s \in DastSites : s.t # "object" \/ Len(s.v) = 0
                                       \/ Len(s.v[Len(s.v)][2].v) < 1}}
    \cup {Obj(Opt("site", s) \o << <<"vulnerabilities", Arr(vs)>> >>) :
            s \in {Undef, Null, Obj(<<>>)}, vs \in SeqsUpTo(DastGeneric, MaxResults)}
    \cup {Null, Num(7), Obj(<<>>), Obj(<< <<"site", Arr(<<>>)>> >>)}

T_cve == <<"C","V","E","-","2","0","2","2","-","9","9","9","9">>
T_cveLower == <<"c","v","e","-","1","9","9","9","-","1">>
T_cveShort == <<"C","V","E","-","1","2","3","-","4">>
T_cwe == <<"C","w","e","-","7","9">>
T_digits == <<"1","2">>
T_space == <<" ">>
T_newline == <<"\n">>
T_Critical == <<"C","r","i","t","i","c","a","l">>
T_low == <<"l","o","w">>
T_med == <<"m","e","d">>

TextFragments ==
  {T_cve, T_cveLower, T_cveShort, T_cwe, T_digits, T_space, T_newline,
   S_HIGH, T_Critical, T_low, T_med}

Texts == {PlainText(s) : s \in FragmentTexts(TextFragments, MaxFrags)}

Formats == {"sarif", "html", "scajson", "scatxt", "dastjson"}

\* plain texts a JSON parser may be handed: empty, not JSON, a bare number
BrokenJson == {PlainText(<<>>), PlainText(T_med), PlainText(T_digits \o T_space)}

ContentsOf(f) ==
  CASE f = "sarif" -> {JsonText(d) : d \in SarifDocs} \cup BrokenJson
    [] f = "scajson" -> {JsonText(d) : d \in ScaDocs} \cup BrokenJson
    [] f = "dastjson" -> {JsonText(d) : d \in DastDocs} \cup BrokenJson
    [] OTHER -> Texts

(***************************************************************************)
(* Parser specification: one call of one parser on any content.            *)
(***************************************************************************)
InitParse ==
  /\ written = <<>>
  /\ NoRecommender
  /\ pc = "parse"
  /\ fmt \in Formats
  /\ content \in ContentsOf(fmt)
  /\ out = Idle
  /\ raw = Undef
  /\ sev = Undef
  /\ dirs = NoDirs
  /\ sastData = Idle
  /\ scaData = Idle
  /\ dastData = Idle

ParserCall(f, result) ==
  /\ pc = "parse"
  /\ fmt = f
  /\ out' = result
  /\ pc' = "parsed"
  /\ UNCHANGED <<raw, sev, fmt, content, dirs, sastData, scaData, dastData, written, recVars>>

ParseSARIF == ParserCall("sarif", parseSARIF(content))
ParseHTML == ParserCall("html", parseHTML(content))
ParseSCAJSON == ParserCall("scajson", parseSCAJSON(content))
ParseSCATXT == ParserCall("scatxt", parseSCATXT(content))
ParseDASTJSON == ParserCall("dastjson", parseDASTJSON(content))

NextParse ==
  \/ ParseSARIF
  \/ ParseHTML
  \/ ParseSCAJSON
  \/ ParseSCATXT
  \/ ParseDASTJSON

SpecParse == InitParse /\ [][NextParse]_vars

(***************************************************************************)
(* Properties of the parsers.                                              *)
(***************************************************************************)
Levels == {S_CRITICAL, S_HIGH, S_MEDIUM, S_LOW, S_INFO, S_UNKNOWN}

Records == IF out.status = "returned" THEN out.value ELSE <<>>

\* C1: every record a parser returns has its six fields present and of type
\* string, whatever the input carries.
C1_AllFieldsAreStrings ==
  pc = "parsed" =>
    \A i \in 1..Len(Records) :
      /\ DOMAIN Records[i] = FieldNames
      /\ \A f \in FieldNames : IsStr(Records[i][f])

\* every value nested in a document
RECURSIVE SubValues(_)
SubValues(x) ==
  {x} \cup
    (CASE x.t = "array" -> UNION {SubValues(x.v[i]) : i \in 1..Len(x.v)}
       [] x.t = "object" -> UNION {SubValues(x.v[i][2]) : i \in 1..Len(x.v)}
       [] OTHER -> {})

\* the upper-cased texts of the tokens a JSON content carries: of each value
\* that prints, and of the first space-delimited token of each string
UpperTokens(c) ==
  IF c.kind # "json" THEN {}
  ELSE LET vals == {x \in SubValues(c.doc) : Truthy(x) /\ ~IsThrow(ToStringJS(x))}
       IN {UpperSeq(ToStringJS(x).v) : x \in vals}
            \cup {UpperSeq(FirstSpaceToken(x.v)) : x \in {y \in vals : IsStr(y)}}

\* C2 as stated: the severity of every record is one of the six fixed levels.
C2_SeverityIsFixedLevel ==
  pc = "parsed" =>
    \A i \in 1..Len(Records) :
      IsStr(Records[i].severity) /\ Records[i].severity.v \in Levels

\* C2 amended: the severity of every record is a string that is one of the
\* six fixed levels or else the upper-cased text of a token of the input that
\* contains none of the classifier's substrings.
C2_SeverityIsLevelOrUpperToken ==
  pc = "parsed" =>
    \A i \in 1..Len(Records) :
      /\ IsStr(Records[i].severity)
      /\ \/ Records[i].severity.v \in Levels
         \/ /\ MatchingCandidates(Records[i].severity.v) = {}
            /\ Records[i].severity.v \in UpperTokens(content)

S_ERROR == <<"E","R","R","O","R">>

C2_Witness ==
  /\ pc = "parsed"
  /\ fmt = "dastjson"
  /\ \E i \in 1..Len(Records) : Records[i].severity = Str(<<"M","O","D","E","R","A","T","E">>)

\* the elements of documents that make a property access raise
HasNullElement(c) ==
  /\ c.kind = "json"
  /\ \E x \in SubValues(c.doc) : x.t = "array" /\ \E i \in 1..Len(x.v) : x.v[i] = Null

NothingToExtract(c) ==
  \/ IsThrow(JSONParse(c))
  \/ JSONParse(c).t \notin {"object"}
  \/ /\ fmt = "sarif"
     /\ ~HasKey(JSONParse(c), "runs")

\* C5: a parser call always returns a sequence and lets no exception escape;
\* a text that is not JSON, a JSON null or scalar, and a SARIF document
\* without runs give the empty sequence.
C5_ParsersAlwaysReturn ==
  pc = "parsed" =>
    /\ out.status = "returned"
    /\ (fmt \in {"sarif", "scajson", "dastjson"} /\ NothingToExtract(content))
         => out.value = <<>>

C5_Witness ==
  /\ pc = "parsed"
  /\ fmt \in {"sarif", "scajson", "dastjson"}
  /\ HasNullElement(content)
  /\ out = Returned(<<>>)

(***************************************************************************)
(* The SARIF extraction stated from the document's structure.              *)
(***************************************************************************)
\* x.k1.k2..., undefined as soon as a link is missing
RECURSIVE Path(_, _)
Path(x, keys) ==
  IF keys = <<>> THEN x
  ELSE IF HasKey(x, Head(keys)) THEN Path(Get(x, Head(keys)), Tail(keys))
  ELSE Undef

\* the first present (truthy) value of a list of alternatives, else the default
RECURSIVE FirstPresent(_, _)
FirstPresent(alts, default) ==
  IF alts = <<>> THEN default
  ELSE IF Truthy(Head(alts)) THEN Head(alts)
  ELSE FirstPresent(Tail(alts), default)

ElementsOf(x) == IF IsArray(x) THEN x.v ELSE <<>>

\* every run, result and rule is an object and a rule list is an array
SarifShaped(doc) ==
  /\ doc.t = "object"
  /\ \A r \in 1..Len(ElementsOf(Path(doc, <<"runs">>))) :
       LET run == Path(doc, <<"runs">>).v[r]
           rules == Path(run, <<"tool", "driver", "rules">>)
       IN /\ run.t = "object"
          /\ \A i \in 1..Len(ElementsOf(Path(run, <<"results">>))) :
               Path(run, <<"results">>).v[i].t = "object"
          /\ rules = Undef \/ IsArray(rules)
          /\ \A i \in 1..Len(ElementsOf(rules)) : rules.v[i].t = "object"

\* the <<run, result>> pairs of a document in run-then-result order
RunResults(doc) ==
  LET runs == ElementsOf(Path(doc, <<"runs">>))
  IN Flatten([r \in 1..Len(runs) |->
       [i \in 1..Len(ElementsOf(Path(runs[r], <<"results">>))) |->
          <<runs[r], Path(runs[r], <<"results">>).v[i]>>]])

\* the first declared rule whose id equals the result's ruleId, else an empty rule
DeclaredRule(run, result) ==
  LET rules == ElementsOf(Path(run, <<"tool", "driver", "rules">>))
      same == {i \in 1..Len(rules) :
                 StrictEq(Path(rules[i], <<"id">>), Path(result, <<"ruleId">>))}
  IN IF same = {} THEN Obj(<<>>)
     ELSE rules[CHOOSE i \in same : \A j \in same : i <= j]

FirstLocationUri(result) ==
  LET locs == ElementsOf(Path(result, <<"locations">>))
  IN IF locs = <<>> THEN Undef
     ELSE Path(locs[1], <<"physicalLocation", "artifactLocation", "uri">>)

\* C9: parseSARIF emits one record per result of every run, in run-then-result
\* order, each built from the result and the first declared rule of its run
\* whose id equals the result's ruleId (an empty rule if none): id = ruleId
\* else "N/A"; name = rule name, else message text, else a generic label;
\* file = first location's artifact URI else "unknown"; description = rule
\* full description, else short description, else message, else placeholder;
\* recommendation = rule help text, else help URI, else placeholder.  One run
\* with the rule CWE-79/XSS/"Sanitize input" and one result referencing it
\* gives exactly one record with that id, name and recommendation.
C9_SarifOneRecordPerResult ==
  (pc = "parsed" /\ fmt = "sarif" /\ content.kind = "json" /\ SarifShaped(content.doc)) =>
    LET rr == RunResults(content.doc)
    IN /\ out.status = "returned"
       /\ Len(out.value) = Len(rr)
       /\ \A k \in 1..Len(rr) :
            LET result == rr[k][2]
                rule == DeclaredRule(rr[k][1], result)
                rec == out.value[k]
                msg == Path(result, <<"message", "text">>)
            IN /\ rec.id = FirstPresent(<<Path(result, <<"ruleId">>)>>, Str(S_NA))
               /\ rec.name = FirstPresent(<<Path(rule, <<"name">>), msg>>, Str(S_UnknownVuln))
               /\ rec.file = FirstPresent(<<FirstLocationUri(result)>>, Str(S_unknown))
               /\ rec.description =
                    FirstPresent(<<Path(rule, <<"fullDescription", "text">>),
                                   Path(rule, <<"shortDescription", "text">>), msg>>,
                                 Str(S_NoDescription))
               /\ rec.recommendation =
                    FirstPresent(<<Path(rule, <<"help", "text">>),
                                   Path(rule, <<"helpUri">>)>>,
                                 Str(S_NoRecommendation))
       /\ (/\ Len(rr) = 1
           /\ Path(content.doc, <<"runs">>).v[1] =
                Obj(ToolOf(Arr(<<RuleXSS>>)) \o
                    << <<"results", Arr(<<Obj(<< <<"ruleId", Str(S_CWE79)>>,
                                                 <<"level", Str(S_error)>> >>)>>)>> >>))
            => /\ Len(out.value) = 1
               /\ out.value[1].id = Str(S_CWE79)
               /\ out.value[1].name = Str(S_XSS)
               /\ out.value[1].recommendation = Str(S_SanitizeInput)

C9_Witness ==
  /\ pc = "parsed"
  /\ fmt = "sarif"
  /\ content = JsonText(Obj(<< <<"runs", Arr(<<
       Obj(ToolOf(Arr(<<RuleXSS>>)) \o
           << <<"results", Arr(<<Obj(<< <<"ruleId", Str(S_CWE79)>>,
                                        <<"level", Str(S_error)>> >>)>>)>> >>)>>)>> >>))
  /\ Len(out.value) = 1
  /\ out.value[1].name = Str(S_XSS)

SarifLevels == {S_error, S_warning, S_note}

HasSarifLevel(result) ==
  /\ IsStr(Path(result, <<"level">>))
  /\ Path(result, <<"level">>).v \in SarifLevels

\* C10 as stated: a result whose level is error, warning or note gives a
\* record whose severity is UNKNOWN.
C10_SarifLevelGivesUnknown ==
  (pc = "parsed" /\ fmt = "sarif" /\ content.kind = "json" /\ SarifShaped(content.doc)) =>
    LET rr == RunResults(content.doc)
    IN \A k \in 1..Len(rr) :
         HasSarifLevel(rr[k][2]) => out.value[k].severity = Str(S_UNKNOWN)

\* C10 amended: a result whose level is error, warning or note matches no
\* classifier substring and gives a record whose severity is the upper-cased
\* level itself (ERROR, WARNING, NOTE), not UNKNOWN.
C10_SarifLevelGivesUpperLevel ==
  (pc = "parsed" /\ fmt = "sarif" /\ content.kind = "json" /\ SarifShaped(content.doc)) =>
    LET rr == RunResults(content.doc)
    IN \A k \in 1..Len(rr) :
         HasSarifLevel(rr[k][2]) =>
           /\ MatchingCandidates(UpperSeq(Path(rr[k][2], <<"level">>).v)) = {}
           /\ out.value[k].severity = Str(UpperSeq(Path(rr[k][2], <<"level">>).v))
           /\ out.value[k].severity # Str(S_UNKNOWN)

C10_Witness ==
  /\ pc = "parsed"
  /\ fmt = "sarif"
  /\ content.kind = "json"
  /\ SarifShaped(content.doc)
  /\ Len(RunResults(content.doc)) = 1
  /\ Path(RunResults(content.doc)[1][2], <<"level">>) = Str(S_error)
  /\ out.value[1].severity = Str(S_ERROR)

(***************************************************************************)
(* Tool aggregators (ai-parser.js:48-57, 142-158, 243-259, 314-328).       *)
(*                                                                         *)
(* A directory is [exists, entries]; an entry is [name, isFile, content]   *)
(* in the order readdirSync lists it.  A subdirectory is an entry that     *)
(* cannot be read as a file.                                               *)
(***************************************************************************)
S_dotsarif == <<".","s","a","r","i","f">>
S_dotjson == <<".","j","s","o","n">>
S_dothtml == <<".","h","t","m","l">>
S_dottxt == <<".","t","x","t">>

\* fs.existsSync / fs.readdirSync / fs.readFileSync over one directory
readFilesFromDirectory_noexists(dir) ==
  IF ~dir.exists THEN Raised
  ELSE IF \E i \in 1..Len(dir.entries) : ~dir.entries[i].isFile THEN Raised
  ELSE Returned(dir.entries)

readFilesFromDirectory(dir) ==
  IF ~dir.exists THEN Returned(<<>>)
  ELSE IF \E i \in 1..Len(dir.entries) : ~dir.entries[i].isFile THEN Raised
  ELSE Returned(dir.entries)

\* allVulnerabilities = allVulnerabilities.concat(parsed)
Concat_prepend(all, parsed) == parsed \o all

Concat(all, parsed) == all \o parsed

SastFile(file) ==
  IF EndsWith(file.name, S_dotsarif) \/ EndsWith(file.name, S_dotjson)
  THEN parseSARIF(file.content)
  ELSE IF EndsWith(file.name, S_dothtml) THEN parseHTML(file.content)
  ELSE Returned(<<>>)

ScaFile(file) ==
  IF EndsWith(file.name, S_dotjson) THEN parseSCAJSON(file.content)
  ELSE IF EndsWith(file.name, S_dottxt) THEN parseSCATXT(file.content)
  ELSE Returned(<<>>)

DastFile(file) ==
  IF EndsWith(file.name, S_dotjson) THEN parseDASTJSON(file.content)
  ELSE Returned(<<>>)

\* the body of the forEach callback of the aggregator of one category
PerFile(tool, file) ==
  CASE tool = "SAST" -> SastFile(file)
    [] tool = "SCA" -> ScaFile(file)
    [] tool = "DAST" -> DastFile(file)

\* files.forEach(...) from file i on, with the records gathered so far
RECURSIVE Gather(_, _, _, _)
Gather(tool, files, i, all) ==
  IF i > Len(files) THEN Returned(all)
  ELSE LET parsed == PerFile(tool, files[i])
       IN IF parsed.status = "raised" THEN Raised
          ELSE Gather(tool, files, i + 1, Concat(all, parsed.value))

ToolResult(tool, gathered) ==
  IF gathered.status = "raised" THEN Raised
  ELSE Returned([tool |-> tool, vulnerabilities |-> gathered.value])

parseSASTReports(dir) ==
  LET files == readFilesFromDirectory(dir)
  IN IF files.status = "raised" THEN Raised
     ELSE ToolResult("SAST", Gather("SAST", files.value, 1, <<>>))

parseSCAReports(dir) ==
  LET files == readFilesFromDirectory(dir)
  IN IF files.status = "raised" THEN Raised
     ELSE ToolResult("SCA", Gather("SCA", files.value, 1, <<>>))

parseDASTReports(dir) ==
  LET files == readFilesFromDirectory(dir)
  IN IF files.status = "raised" THEN Raised
     ELSE ToolResult("DAST", Gather("DAST", files.value, 1, <<>>))

(***************************************************************************)
(* Report directories.                                                     *)
(***************************************************************************)
N_sarif == <<"a",".","s","a","r","i","f">>
N_json == <<"b",".","j","s","o","n">>
N_html == <<"c",".","h","t","m","l">>
N_txt == <<"d",".","t","x","t">>
N_xml == <<"e",".","x","m","l">>
N_dir == <<"o","l","d">>
N_upper == <<"f",".","J","S","O","N">>
N_json2 == <<"g",".","j","s","o","n">>

File(name, c) == [name |-> name, isFile |-> TRUE, content |-> c]
SubDirectory(name) == [name |-> name, isFile |-> FALSE, content |-> PlainText(<<>>)]

SarifOneResult ==
  JsonText(Obj(<< <<"runs", Arr(<<
    Obj(ToolOf(Arr(<<RuleXSS>>)) \o
        << <<"results", Arr(<<Obj(<< <<"ruleId", Str(S_CWE79)>>,
                                     <<"level", Str(S_error)>> >>)>>)>> >>)>>)>> >>))
SarifTwoResults ==
  JsonText(Obj(<< <<"runs", Arr(<<
    Obj(<< <<"results", Arr(<<Obj(<< <<"ruleId", Num(79)>> >>),
                              Obj(<< <<"level", Str(S_High)>> >> \o SarifMessage)>>)>> >>)>>)>> >>))
SarifNullResult ==
  JsonText(Obj(<< <<"runs", Arr(<<
    Obj(<< <<"results", Arr(<<Obj(<< <<"ruleId", Str(S_CWE79)>> >>), Null>>)>> >>)>>)>> >>))
HtmlOneFinding == PlainText(T_cwe \o T_space \o S_HIGH)
TxtOneLine == PlainText(T_cve \o T_space \o T_low)
TxtTwoLines == PlainText(T_cveLower \o T_newline \o T_med \o T_newline \o T_cve \o T_Critical)
ScaArrayDoc ==
  JsonText(Obj(<< <<"vulnerabilities", Arr(<<
    Obj(<< <<"cve", Str(S_CVE1)>>, <<"severity", Str(S_moderate)>> >>),
    Obj(<< <<"package", Str(S_pkg)>>, <<"severity", Str(S_High)>> >>)>>)>> >>))
ScaKeyedDoc ==
  JsonText(Obj(<< <<"vulnerabilities", Obj(<< <<"lodash",
    Obj(<< <<"via", Arr(<<Obj(<< <<"cve", Str(S_CVE1)>>, <<"severity", Str(F_high)>> >>)>>)>>,
           <<"fixAvailable", Bool(TRUE)>> >>)>> >>)>> >>))
DastSiteDoc ==
  JsonText(Obj(<< <<"site", Arr(<<
    Obj(<< <<"name", Str(S_site)>>,
           <<"alerts", Arr(<<Obj(<< <<"pluginid", Str(S_p10)>>,
                                    <<"riskdesc", Str(S_MediumHigh)>> >>),
                             Obj(<< <<"risk", Str(S_Low)>>, <<"url", Str(S_url)>> >>)>>)>> >>)>>)>> >>))
DastGenericDoc ==
  JsonText(Obj(<< <<"vulnerabilities", Arr(<<
    Obj(<< <<"id", Str(S_GHSA)>>, <<"severity", Str(S_High)>> >>)>>)>> >>))
DastNullAlert ==
  JsonText(Obj(<< <<"site", Arr(<<Obj(<< <<"alerts", Arr(<<Obj(<<>>), Null>>)>> >>)>>)>> >>))
NotJson == PlainText(T_med)

Categories == {"SAST", "SCA", "DAST"}

EntriesOf(cat) ==
  CASE cat = "SAST" ->
         {File(N_sarif, SarifOneResult), File(N_sarif, SarifNullResult),
          File(N_json, SarifTwoResults), File(N_json, NotJson),
          File(N_html, HtmlOneFinding), File(N_txt, TxtOneLine),
          File(N_upper, SarifOneResult), SubDirectory(N_dir)}
    [] cat = "SCA" ->
         {File(N_json, ScaArrayDoc), File(N_json, NotJson),
          File(N_json2, ScaKeyedDoc), File(N_txt, TxtOneLine),
          File(N_txt, TxtTwoLines), File(N_xml, TxtOneLine),
          File(N_html, HtmlOneFinding), SubDirectory(N_dir)}
    [] cat = "DAST" ->
         {File(N_json, DastSiteDoc), File(N_json, DastNullAlert),
          File(N_json2, DastGenericDoc), File(N_json2, NotJson),
          File(N_sarif, SarifOneResult), File(N_txt, TxtOneLine),
          SubDirectory(N_dir)}

DistinctNames(es) ==
  \A i \in 1..Len(es) : \A j \in 1..Len(es) : i # j => es[i].name # es[j].name

Directory(es) == [exists |-> TRUE, entries |-> es]

\* every directory of at most MaxFiles entries
DirectoriesOf(cat) ==
  {NoDir} \cup {Directory(es) : es \in {s \in SeqsUpTo(EntriesOf(cat), MaxFiles) :
                                           DistinctNames(s)}}

\* the populated directory of a category that is not the one being varied
PlainDirOf(cat) ==
  CASE cat = "SAST" -> Directory(<<File(N_sarif, SarifOneResult)>>)
    [] cat = "SCA" -> Directory(<<File(N_txt, TxtOneLine)>>)
    [] cat = "DAST" -> Directory(<<File(N_json, DastGenericDoc)>>)

(***************************************************************************)
(* main (ai-parser.js:390-415): the three aggregators in order; an         *)
(* exception that leaves an aggregator ends the process.                   *)
(***************************************************************************)
Init ==
  /\ written = <<>>
  /\ NoRecommender
  /\ pc = "sast"
  /\ \E focus \in Categories :
       \E d \in DirectoriesOf(focus) :
         \E plain \in [Categories -> BOOLEAN] :
           dirs = [c \in Categories |->
                     IF c = focus THEN d
                     ELSE IF plain[c] THEN PlainDirOf(c) ELSE NoDir]
  /\ sastData = Idle
  /\ scaData = Idle
  /\ dastData = Idle
  /\ raw = Undef
  /\ sev = Undef
  /\ fmt = "none"
  /\ content = Undef
  /\ out = Idle

ParseSASTReports ==
  /\ pc = "sast"
  /\ sastData' = parseSASTReports(dirs["SAST"])
  /\ pc' = IF sastData'.status = "raised" THEN "aborted" ELSE "sca"
  /\ UNCHANGED <<raw, sev, fmt, content, out, dirs, scaData, dastData, written, recVars>>

ParseSCAReports ==
  /\ pc = "sca"
  /\ scaData' = parseSCAReports(dirs["SCA"])
  /\ pc' = IF scaData'.status = "raised" THEN "aborted" ELSE "dast"
  /\ UNCHANGED <<raw, sev, fmt, content, out, dirs, sastData, dastData, written, recVars>>

ParseDASTReports ==
  /\ pc = "dast"
  /\ dastData' = parseDASTReports(dirs["DAST"])
  /\ pc' = IF dastData'.status = "raised" THEN "aborted" ELSE "generate"
  /\ UNCHANGED <<raw, sev, fmt, content, out, dirs, sastData, scaData, written, recVars>>

(***************************************************************************)
(* The emitter (ai-parser.js:337-384): generateJSONFiles writes the three  *)
(* normalized files, then generatePromptFiles writes the three prompts.    *)
(***************************************************************************)
ToolChars(cat) ==
  CASE cat = "SAST" -> <<"S","A","S","T">>
    [] cat = "SCA" -> <<"S","C","A">>
    [] cat = "DAST" -> <<"D","A","S","T">>

\* the keys of a record in the order of the object literal that builds it
KeyOrder == <<"id", "name", "severity", "file", "description", "recommendation">>

RecordObject(r) == Obj([i \in 1..Len(KeyOrder) |-> <<KeyOrder[i], r[KeyOrder[i]]>>])

\* the object { tool, vulnerabilities } an aggregator returns
ToolResultObject(data) ==
  Obj(<< <<"tool", Str(ToolChars(data.tool))>>,
         <<"vulnerabilities",
           Arr([i \in 1..Len(data.vulnerabilities) |->
                  RecordObject(data.vulnerabilities[i])])>> >>)

\* the value JSON.stringify writes for v: a member that is undefined is left
\* out of an object and becomes null in an array
RECURSIVE JsonValue(_)
JsonValue(v) ==
  CASE v.t = "object" ->
         LET kept == SelectSeq(v.v, LAMBDA p : p[2].t # "undefined")
         IN Obj([i \in 1..Len(kept) |-> <<kept[i][1], JsonValue(kept[i][2])>>])
    [] v.t = "array" ->
         Arr([i \in 1..Len(v.v) |->
                IF v.v[i].t = "undefined" THEN Null ELSE JsonValue(v.v[i])])
    [] OTHER -> v

\* JSON.stringify(data, null, 2): the text whose parse is JsonValue(data)
JSONStringify(data) == JsonText(JsonValue(ToolResultObject(data)))

\* the template literal of a prompt: the instruction naming the scan type,
\* then the serialized data
PromptText(type, data) == [kind |-> "prompt", type |-> type, json |-> JSONStringify(data)]

EmitOrder_scafirst == <<"SCA", "SAST", "DAST">>

EmitOrder == <<"SAST", "SCA", "DAST">>

JsonFileOf(cat) ==
  CASE cat = "SAST" -> "json/normalized_sast.json"
    [] cat = "SCA" -> "json/normalized_sca.json"
    [] cat = "DAST" -> "json/normalized_dast.json"

PromptFileOf(cat) ==
  CASE cat = "SAST" -> "prompts/prompt_sast.txt"
    [] cat = "SCA" -> "prompts/prompt_sca.txt"
    [] cat = "DAST" -> "prompts/prompt_dast.txt"

\* fs.writeFileSync(path, text)
WriteFileSync(path, text) == written' = Append(written, [path |-> path, text |-> text])

ArgumentOf(cat) ==
  CASE cat = "SAST" -> sastData.value
    [] cat = "SCA" -> scaData.value
    [] cat = "DAST" -> dastData.value

\* one writeFileSync of generateJSONFiles
GenerateJSONFile ==
  /\ pc = "generate"
  /\ \E k \in 1..Len(EmitOrder) :
       /\ k = Len(written) + 1
       /\ WriteFileSync(JsonFileOf(EmitOrder[k]), JSONStringify(ArgumentOf(EmitOrder[k])))
       /\ pc' = IF k = Len(EmitOrder) THEN "prompts" ELSE "generate"
  /\ UNCHANGED <<raw, sev, fmt, content, out, dirs, sastData, scaData, dastData, recVars>>

\* one iteration of the forEach of generatePromptFiles
GeneratePromptFile ==
  /\ pc = "prompts"
  /\ \E k \in 1..Len(EmitOrder) :
       /\ k = Len(written) - Len(EmitOrder) + 1
       /\ WriteFileSync(PromptFileOf(EmitOrder[k]),
                        PromptText(EmitOrder[k], ArgumentOf(EmitOrder[k])))
       /\ pc' = IF k = Len(EmitOrder) THEN "done" ELSE "prompts"
  /\ UNCHANGED <<raw, sev, fmt, content, out, dirs, sastData, scaData, dastData, recVars>>

Next ==
  \/ ParseSASTReports
  \/ ParseSCAReports
  \/ ParseDASTReports
  \/ GenerateJSONFile
  \/ GeneratePromptFile

Spec == Init /\ [][Next]_vars

DataOf(cat) ==
  CASE cat = "SAST" -> sastData
    [] cat = "SCA" -> scaData
    [] cat = "DAST" -> dastData

\* the parser an aggregator selects for a file name, by extension
Dispatch ==
  [SAST |-> << <<S_dotsarif, "sarif">>, <<S_dotjson, "sarif">>, <<S_dothtml, "html">> >>,
   SCA |-> << <<S_dotjson, "scajson">>, <<S_dottxt, "scatxt">> >>,
   DAST |-> << <<S_dotjson, "dastjson">> >>]

ParserOutput(f, c) ==
  CASE f = "sarif" -> parseSARIF(c).value
    [] f = "html" -> parseHTML(c).value
    [] f = "scajson" -> parseSCAJSON(c).value
    [] f = "scatxt" -> parseSCATXT(c).value
    [] f = "dastjson" -> parseDASTJSON(c).value

\* the records of one directory entry: those of the parser of the first
\* matching extension, none for any other entry
EntryRecords(cat, e) ==
  LET rows == {r \in 1..Len(Dispatch[cat]) : EndsWith(e.name, Dispatch[cat][r][1])}
  IN IF rows = {} \/ ~e.isFile THEN <<>>
     ELSE ParserOutput(Dispatch[cat][CHOOSE r \in rows : \A q \in rows : r <= q][2],
                       e.content)

ExpectedRecords(cat) ==
  Flatten([i \in 1..Len(dirs[cat].entries) |-> EntryRecords(cat, dirs[cat].entries[i])])

\* C6: whatever a category's directory holds, its aggregator returns a
\* ToolResult: a malformed file contributes no record, its siblings' records
\* are produced, and an entry without a matching parser, a subdirectory
\* included, is ignored without an error.
C6_AggregatorsNeverAbort ==
  \A cat \in Categories :
    /\ DataOf(cat).status # "raised"
    /\ DataOf(cat).status = "returned" =>
         DataOf(cat).value.vulnerabilities = ExpectedRecords(cat)

\* C7: a category whose directory is missing or holds no entry gets exactly
\* {tool: C, vulnerabilities: []}, and no error is raised.
C7_EmptyOrMissingDirectory ==
  \A cat \in Categories :
    (DataOf(cat) # Idle /\ (~dirs[cat].exists \/ dirs[cat].entries = <<>>)) =>
      DataOf(cat) = Returned([tool |-> cat, vulnerabilities |-> <<>>])

C7_Witness ==
  /\ pc = "generate"
  /\ ~dirs["SAST"].exists
  /\ dirs["DAST"] = Directory(<<>>)
  /\ sastData = Returned([tool |-> "SAST", vulnerabilities |-> <<>>])
  /\ dastData = Returned([tool |-> "DAST", vulnerabilities |-> <<>>])

\* C8: the vulnerabilities of a ToolResult are the concatenation, in the
\* directory's enumeration order, of the output of the parser selected by
\* each file's extension, each file's records in their own order; nothing is
\* sorted, dropped, duplicated or deduplicated.
C8_ConcatenationInFileOrder ==
  \A cat \in Categories :
    DataOf(cat).status = "returned" =>
      /\ DataOf(cat).value.tool = cat
      /\ DataOf(cat).value.vulnerabilities = ExpectedRecords(cat)

C8_Witness ==
  /\ scaData.status = "returned"
  /\ Len(dirs["SCA"].entries) = 2
  /\ dirs["SCA"].entries[1] = File(N_txt, TxtTwoLines)
  /\ dirs["SCA"].entries[2] = File(N_json, ScaArrayDoc)
  /\ Len(scaData.value.vulnerabilities) = 4
  /\ scaData.value.vulnerabilities[1].id = Str(T_cveLower)
  /\ scaData.value.vulnerabilities[3].id = Str(S_CVE1)

(***************************************************************************)
(* The dependency-audit extraction stated from the document's structure.   *)
(***************************************************************************)
\* a via entry that is a structured value rather than a bare reference
Structured(v) == v.t \in {"object", "array"}

\* vulnerabilities is a mapping from package names to advisories
KeyedShape(doc) ==
  /\ doc.t = "object"
  /\ Path(doc, <<"vulnerabilities">>).t = "object"
  /\ \A i \in 1..Len(Path(doc, <<"vulnerabilities">>).v) :
       ~IsNullish(Path(doc, <<"vulnerabilities">>).v[i][2])

\* the <<package, advisory, entry>> triples of the structured via entries, in
\* package-then-entry order
StructuredVia(doc) ==
  LET pkgs == Path(doc, <<"vulnerabilities">>).v
  IN Flatten([p \in 1..Len(pkgs) |->
       LET via == SelectSeq(ElementsOf(Path(pkgs[p][2], <<"via">>)), Structured)
       IN [i \in 1..Len(via) |-> <<pkgs[p][1], pkgs[p][2], via[i]>>]])

\* C11: in the keyed shape every via entry that is a structured object gives
\* exactly one record, with file = the enclosing package name and the
\* recommendation fixed by fixAvailable, and every other entry is skipped
\* without affecting the others; the lodash document of the specification
\* gives one record with file lodash, severity HIGH and "Update available".
C11_KeyedShapeOneRecordPerObject ==
  (pc = "parsed" /\ fmt = "scajson" /\ content.kind = "json" /\ KeyedShape(content.doc)) =>
    LET sv == StructuredVia(content.doc)
    IN /\ out.status = "returned"
       /\ Len(out.value) = Len(sv)
       /\ \A k \in 1..Len(sv) :
            /\ out.value[k].file = Str(KeyChars(sv[k][1]))
            /\ out.value[k].recommendation =
                 IF Truthy(Path(sv[k][2], <<"fixAvailable">>))
                 THEN Str(S_UpdateAvailable) ELSE Str(S_NoFix)
       /\ content = ScaKeyedDoc =>
            /\ Len(out.value) = 1
            /\ out.value[1].file = Str(S_lodash)
            /\ out.value[1].severity = Str(S_HIGH)
            /\ out.value[1].recommendation = Str(S_UpdateAvailable)

\* C12: the array shape is tried first (an array, even an empty one, never
\* reaches the keyed branch) and gives one record per finding, each field
\* taking the first present alias: id before cve, title before name, package
\* before library before dependency, else the documented default.
ArrayShape(doc) ==
  /\ doc.t = "object"
  /\ IsArray(Path(doc, <<"vulnerabilities">>))
  /\ \A i \in 1..Len(Path(doc, <<"vulnerabilities">>).v) :
       ~IsNullish(Path(doc, <<"vulnerabilities">>).v[i])

C12_ArrayShapeFirstAliasWins ==
  (pc = "parsed" /\ fmt = "scajson" /\ content.kind = "json" /\ ArrayShape(content.doc)) =>
    LET fs == Path(content.doc, <<"vulnerabilities">>).v
    IN /\ out.status = "returned"
       /\ Len(out.value) = Len(fs)
       /\ \A k \in 1..Len(fs) :
            /\ out.value[k].id =
                 FirstPresent(<<Path(fs[k], <<"id">>), Path(fs[k], <<"cve">>)>>, Str(S_NA))
            /\ out.value[k].name =
                 FirstPresent(<<Path(fs[k], <<"title">>), Path(fs[k], <<"name">>)>>,
                              Str(S_UnknownVuln))
            /\ out.value[k].file =
                 FirstPresent(<<Path(fs[k], <<"package">>), Path(fs[k], <<"library">>),
                                Path(fs[k], <<"dependency">>)>>, Str(S_unknown))

C12_Witness ==
  /\ pc = "parsed"
  /\ fmt = "scajson"
  /\ content.kind = "json"
  /\ ArrayShape(content.doc)
  /\ Len(out.value) = 2
  /\ Path(content.doc, <<"vulnerabilities">>).v[1] =
       Obj(<< <<"id", Str(S_GHSA)>>, <<"cve", Str(S_CVE1)>>, <<"severity", Str(S_High)>> >>)
  /\ out.value[1].id = Str(S_GHSA)
  /\ Path(content.doc, <<"vulnerabilities">>).v[2] =
       Obj(<< <<"package", Str(S_pkg)>>, <<"library", Str(S_lib)>>,
              <<"dependency", Str(S_dep)>> >>)
  /\ out.value[2].file = Str(S_pkg)

(***************************************************************************)
(* The text-report extraction stated from the lines of the text.           *)
(***************************************************************************)
\* t is CVE- + 4 digits + - + 1 or more digits, in any letter case
IsCveToken(t) ==
  /\ Len(t) >= 10
  /\ UpperSeq(SubSeq(t, 1, 4)) = S_CVEdash
  /\ \A k \in 5..8 : IsDigit(t[k])
  /\ t[9] = "-"
  /\ \A k \in 10..Len(t) : IsDigit(t[k])

CveTokensOf(line) ==
  {<<i, j>> \in (1..Len(line)) \X (1..Len(line)) :
     i <= j /\ IsCveToken(SubSeq(line, i, j))}

LinesWithCve(text) == SelectSeq(SplitLines(text), LAMBDA l : CveTokensOf(l) # {})

\* the first and longest CVE token of a line that has one
FirstCveToken(line) ==
  LET ts == CveTokensOf(line)
      t == CHOOSE t \in ts : \A u \in ts : t[1] < u[1] \/ (t[1] = u[1] /\ t[2] >= u[2])
  IN SubSeq(line, t[1], t[2])

\* C13: every line is processed on its own and gives exactly one record if and
\* only if it contains a token CVE- + 4 digits + - + 1 or more digits (any
\* letter case); the record has id = the matched token, file = "See TXT
\* report" and description = the trimmed line, and there are as many records
\* as lines with such a token, in line order.
C13_OneRecordPerCveLine ==
  (pc = "parsed" /\ fmt = "scatxt") =>
    LET ls == LinesWithCve(content.chars)
    IN /\ out.status = "returned"
       /\ Len(out.value) = Len(ls)
       /\ \A k \in 1..Len(ls) :
            /\ out.value[k].id = Str(FirstCveToken(ls[k]))
            /\ out.value[k].file = Str(S_SeeTXT)
            /\ out.value[k].description = Str(Trim(ls[k]))

C13_Witness ==
  /\ pc = "parsed"
  /\ fmt = "scatxt"
  /\ content = PlainText(T_cveShort \o T_newline \o T_cveLower)
  /\ Len(out.value) = 1
  /\ out.value[1].id = Str(T_cveLower)

\* C14 as stated: the severity of a line's record is the classifier's level
\* for the line's severity words, by the classifier's priority order over
\* CRITICAL/CRIT, HIGH, MEDIUM/MED, LOW, INFO, and UNKNOWN only when the line
\* holds none of them.
C14_SeverityByClassifierPriority ==
  (pc = "parsed" /\ fmt = "scatxt") =>
    LET ls == LinesWithCve(content.chars)
    IN \A k \in 1..Min(Len(ls), Len(out.value)) :
         out.value[k].severity =
           IF MatchingCandidates(UpperSeq(ls[k])) = {} THEN Str(S_UNKNOWN)
           ELSE Str(FirstCandidateLevel(UpperSeq(ls[k])))

(***************************************************************************)
(* The DAST extraction stated from the document's structure.               *)
(***************************************************************************)
\* the <<site, alert>> pairs of a document in site-then-alert order
SiteAlerts(doc) ==
  LET sites == ElementsOf(Path(doc, <<"site">>))
  IN Flatten([s \in 1..Len(sites) |->
       [i \in 1..Len(ElementsOf(Path(sites[s], <<"alerts">>))) |->
          <<sites[s], Path(sites[s], <<"alerts">>).v[i]>>]])

\* every site and alert is an object and every riskdesc is a string or absent
SiteShaped(doc) ==
  /\ \A s \in 1..Len(ElementsOf(Path(doc, <<"site">>))) :
       Path(doc, <<"site">>).v[s].t = "object"
  /\ \A k \in 1..Len(SiteAlerts(doc)) :
       /\ SiteAlerts(doc)[k][2].t = "object"
       /\ Path(SiteAlerts(doc)[k][2], <<"riskdesc">>).t \in {"undefined", "null", "string"}

FirstWhitespaceToken(s) ==
  LET ws == {i \in 1..Len(s) : IsSpace(s[i])}
  IN IF ws = {} THEN s
     ELSE SubSeq(s, 1, (CHOOSE i \in ws : \A j \in ws : i <= j) - 1)

\* C19: for every alert of the site/alert shape the severity is the
\* classifier's level of the first whitespace-delimited token of riskdesc when
\* that token is not empty, else of risk, whatever the whitespace separator
\* and whatever follows the first token; and file is the alert's url, else the
\* site's name, else "unknown".
C19_SeverityFromFirstToken ==
  (pc = "parsed" /\ fmt = "dastjson" /\ content.kind = "json" /\ content.doc.t = "object"
     /\ IsArray(Path(content.doc, <<"site">>)) /\ SiteShaped(content.doc)) =>
    LET sa == SiteAlerts(content.doc)
    IN /\ Len(out.value) = Len(sa)
       /\ \A k \in 1..Len(sa) :
            LET riskdesc == Path(sa[k][2], <<"riskdesc">>)
                token == IF IsStr(riskdesc) THEN FirstWhitespaceToken(riskdesc.v) ELSE <<>>
            IN /\ out.value[k].severity =
                    normalizeSeverity(IF token # <<>> THEN Str(token)
                                      ELSE Path(sa[k][2], <<"risk">>))
               /\ out.value[k].file =
                    FirstPresent(<<Path(sa[k][2], <<"url">>), Path(sa[k][1], <<"name">>)>>,
                                 Str(S_unknown))

(***************************************************************************)
(* Per-file atomicity of the JSON parsers.                                 *)
(***************************************************************************)
\* the findings of a document, as the parser of format f walks them
Findings(f, doc) ==
  CASE f = "sarif" ->
         [k \in 1..Len(RunResults(doc)) |-> RunResults(doc)[k][2]]
    [] f = "scajson" ->
         IF IsArray(Path(doc, <<"vulnerabilities">>))
         THEN Path(doc, <<"vulnerabilities">>).v
         ELSE LET pkgs == ElementsOf([t |-> "array",
                                      v |-> IF Path(doc, <<"vulnerabilities">>).t = "object"
                                            THEN Path(doc, <<"vulnerabilities">>).v
                                            ELSE <<>>])
              IN Flatten([p \in 1..Len(pkgs) |->
                   SelectSeq(ElementsOf(Path(pkgs[p][2], <<"via">>)), TypeofObject)])
    [] f = "dastjson" ->
         IF IsArray(Path(doc, <<"site">>))
         THEN [k \in 1..Len(SiteAlerts(doc)) |-> SiteAlerts(doc)[k][2]]
         ELSE ElementsOf(Path(doc, <<"vulnerabilities">>))

\* C20: a JSON parser returns either one record for every finding of the
\* document or the empty sequence, never a strict non-empty prefix; when a
\* finding makes the extraction raise (a null finding), the records built for
\* the findings before it are discarded with it.
C20_AllFindingsOrNone ==
  (pc = "parsed" /\ fmt \in {"sarif", "scajson", "dastjson"} /\ content.kind = "json") =>
    LET fs == Findings(fmt, content.doc)
    IN /\ out.status = "returned"
       /\ out.value = <<>> \/ Len(out.value) = Len(fs)
       /\ (\E k \in 1..Len(fs) : fs[k] = Null) => out.value = <<>>

C20_Witness ==
  /\ pc = "parsed"
  /\ fmt \in {"sarif", "scajson", "dastjson"}
  /\ content.kind = "json"
  /\ LET fs == Findings(fmt, content.doc)
     IN /\ Len(fs) = 2
        /\ fs[1].t = "object"
        /\ fs[2] = Null
  /\ out = Returned(<<>>)

(***************************************************************************)
(* The life of a ToolResult in one run of main.                            *)
(***************************************************************************)
WritesTo(path) == SelectSeq(written, LAMBDA w : w.path = path)

\* C16: in one run of main each of the three ToolResults is produced once and
\* consumed exactly once by the emitter (once for its normalized file, once
\* for its prompt), and nothing is modified after construction: no output is
\* written twice, every written text is the serialization of the ToolResult as
\* it is now, and when the run has ended every category has its ToolResult
\* and both of its outputs.
C16_EachToolResultConsumedOnce ==
  /\ \A cat \in Categories :
       /\ Len(WritesTo(JsonFileOf(cat))) <= 1
       /\ Len(WritesTo(PromptFileOf(cat))) <= 1
       /\ \A i \in 1..Len(written) :
            /\ written[i].path = JsonFileOf(cat) =>
                 /\ DataOf(cat).status = "returned"
                 /\ written[i].text = JSONStringify(DataOf(cat).value)
            /\ written[i].path = PromptFileOf(cat) =>
                 /\ DataOf(cat).status = "returned"
                 /\ written[i].text = PromptText(cat, DataOf(cat).value)
  /\ pc \in {"done", "aborted"} =>
       \A cat \in Categories :
         /\ DataOf(cat).status = "returned"
         /\ Len(WritesTo(JsonFileOf(cat))) = 1
         /\ Len(WritesTo(PromptFileOf(cat))) = 1

(***************************************************************************)
(* The recommender (src/app/ai_recommender.js, and the Ollama version of   *)
(* src/unnamed/part_000:336-848): the prompts of a directory are sent to   *)
(* the model one after the other, each answer becoming an HTML report.     *)
(***************************************************************************)
MaxPrompts == 3

Versions == {"llm", "ollama", "fallback"}

S_dotmd == <<".","m","d">>
S_report == <<"_","r","e","p","o","r","t",".","h","t","m","l">>
P_sast == <<"p","r","o","m","p","t","_","s","a","s","t",".","t","x","t">>
P_sca == <<"P","r","o","m","p","t","_","S","C","A",".","m","d">>
P_dast == <<"p","r","o","m","p","t","_","d","a","s","t",".","t","x","t">>
P_notes == <<"n","o","t","e","s",".","j","s","o","n">>
P_arch == <<"a","r","c","h","i","v","e",".","m","d">>
Q_text == <<"A","n","a","l","y","s","e">>
A_text == <<"#","#"," ","F","i","x">>

\* a name readdirSync lists whose file is gone when it is read
Vanished(name) == [name |-> name, isFile |-> TRUE, content |-> Undef]

PromptEntries ==
  {File(P_sast, PlainText(Q_text)), File(P_sast, PlainText(<<>>)),
   File(P_sca, PlainText(Q_text)), Vanished(P_sca),
   File(P_dast, PlainText(Q_text)), File(P_notes, PlainText(Q_text)),
   SubDirectory(P_arch)}

PromptDirs ==
  {NoDir} \cup {Directory(es) : es \in {s \in SeqsUpTo(PromptEntries, MaxPrompts) :
                                          DistinctNames(s)}}

LowChar(c) ==
  IF \E i \in 1..26 : UpperAlpha[i] = c
  THEN LowerAlpha[CHOOSE i \in 1..26 : UpperAlpha[i] = c]
  ELSE c

\* path.basename(file, path.extname(file)).toLowerCase()
TypeOf(name) ==
  LET dots == {i \in 2..Len(name) : name[i] = "."}
      stem == IF dots = {} THEN name
              ELSE SubSeq(name, 1, (CHOOSE i \in dots : \A j \in dots : j <= i) - 1)
  IN [i \in 1..Len(stem) |-> LowChar(stem[i])]

\* readPrompt: null for a missing file, else the text; reading a directory raises
readPrompt(entry) ==
  IF entry.content = Undef THEN Null
  ELSE IF ~entry.isFile THEN Throw
  ELSE Str(entry.content.chars)

\* readdirSync(PROMPTS_DIR).filter(f => f.endsWith('.txt') || f.endsWith('.md'))
PromptFilesOf(dir) ==
  SelectSeq(dir.entries, LAMBDA e : EndsWith(e.name, S_dottxt) \/ EndsWith(e.name, S_dotmd))

\* an HTTP request: the prompt it carries (0 for the availability check), its
\* state, and whether the 'error' event of a destroyed socket is still to come
Request(file) == [file |-> file, state |-> "outstanding", hangup |-> FALSE]

Settle(state, hangup) ==
  [requests EXCEPT ![Len(requests)] = [@ EXCEPT !.state = state, !.hangup = hangup]]

\* summary.processed++ or summary.failed++ (ai_recommender.js keeps no counters)
Count(field) ==
  IF version # "llm" THEN [summary EXCEPT ![field] = @ + 1] ELSE summary

\* writeJSONSummary(path, data)
WriteJSONSummary(path, data) == written' = Append(written, [path |-> path, text |-> data])

\* ollamaStatus.available && ollamaStatus.hasModel
UseAI == ollamaStatus.available /\ ollamaStatus.hasModel

InitRec ==
  /\ pc = "start"
  /\ version \in Versions
  /\ promptDir \in PromptDirs
  /\ promptFiles = <<>>
  /\ idx = 0
  /\ requests = <<>>
  /\ summary = [total_prompts |-> 0, processed |-> 0, failed |-> 0]
  /\ reports = <<>>
  /\ exitCode = NotExited
  /\ ollamaStatus = NoStatus
  /\ written = <<>>
  /\ raw = Undef
  /\ sev = Undef
  /\ fmt = "none"
  /\ content = Undef
  /\ out = Idle
  /\ dirs = NoDirs
  /\ sastData = Idle
  /\ scaData = Idle
  /\ dastData = Idle

\* the start of the async main: the versions of part_000 stop when the
\* prompts directory is missing, else ask the server for its models
StartRecommender ==
  /\ pc = "start"
  /\ IF version # "llm" /\ ~promptDir.exists
     THEN /\ WriteJSONSummary("error.json", [status |-> "error"])
          /\ pc' = "exited"
          /\ exitCode' = 1
          /\ UNCHANGED requests
     ELSE IF version # "llm"
     THEN /\ pc' = "checking"
          /\ requests' = Append(requests, Request(0))
          /\ UNCHANGED <<exitCode, written>>
     ELSE pc' = "list" /\ UNCHANGED <<requests, exitCode, written>>
  /\ UNCHANGED <<parserVars, version, promptDir, promptFiles, idx, summary, reports,
                 ollamaStatus>>

\* checkOllamaAvailability settles; the Ollama version goes on only when the
\* server answers and lists the model, the fallback version always goes on
AvailabilityAnswer ==
  /\ pc = "checking"
  /\ \E answer \in {"model", "nomodel", "invalid", "error", "timeout"} :
       /\ requests' = Settle(CASE answer = "error" -> "failed"
                               [] answer = "timeout" -> "timedout"
                               [] OTHER -> "answered",
                             answer = "timeout")
       /\ ollamaStatus' = [available |-> answer \notin {"error", "timeout"},
                           hasModel |-> answer = "model"]
       /\ IF answer = "model" \/ version = "fallback"
          THEN pc' = "list" /\ UNCHANGED <<exitCode, written>>
          ELSE /\ WriteJSONSummary("error.json", [status |-> "error"])
               /\ pc' = "exited"
               /\ exitCode' = 1
  /\ UNCHANGED <<parserVars, version, promptDir, promptFiles, idx, summary, reports>>

\* the listing of the prompts directory
ListPrompts ==
  /\ pc = "list"
  /\ IF ~promptDir.exists
     THEN /\ pc' = "crashed"
          /\ exitCode' = 1
          /\ UNCHANGED <<promptFiles, idx, summary, written>>
     ELSE /\ promptFiles' = PromptFilesOf(promptDir)
          /\ IF promptFiles' = <<>>
             THEN /\ pc' = "exited"
                  /\ exitCode' = 0
                  /\ IF version # "llm"
                     THEN WriteJSONSummary("status.json", [status |-> "no_prompts"])
                     ELSE UNCHANGED written
                  /\ UNCHANGED <<idx, summary>>
             ELSE /\ pc' = "loop"
                  /\ idx' = 1
                  /\ summary' = [summary EXCEPT !.total_prompts =
                                   IF version # "llm" THEN Len(promptFiles') ELSE 0]
                  /\ UNCHANGED <<exitCode, written>>
  /\ UNCHANGED <<parserVars, version, promptDir, requests, reports, ollamaStatus>>

\* if (!prompt) { summary.failed++; continue; }
SkipPrompt ==
  /\ pc = "loop"
  /\ idx <= Len(promptFiles)
  /\ ~IsThrow(readPrompt(promptFiles[idx]))
  /\ ~Truthy(readPrompt(promptFiles[idx]))
  /\ summary' = Count("failed")
  /\ idx' = idx + 1
  /\ UNCHANGED <<pc, parserVars, written, version, promptDir, promptFiles, requests,
                 reports, exitCode, ollamaStatus>>

\* readFileSync raises outside any try: the async main is rejected and the
\* process ends
UnreadablePrompt ==
  /\ pc = "loop"
  /\ idx <= Len(promptFiles)
  /\ IsThrow(readPrompt(promptFiles[idx]))
  /\ pc' = "crashed"
  /\ exitCode' = 1
  /\ UNCHANGED <<parserVars, written, version, promptDir, promptFiles, idx, requests,
                 summary, reports, ollamaStatus>>

\* queryLLM / queryOllama: the request is written and the loop awaits it; the
\* fallback version asks only a server that has the model
QueryLLM ==
  /\ pc = "loop"
  /\ idx <= Len(promptFiles)
  /\ ~IsThrow(readPrompt(promptFiles[idx]))
  /\ Truthy(readPrompt(promptFiles[idx]))
  /\ version = "fallback" => UseAI
  /\ requests' = Append(requests, Request(idx))
  /\ pc' = "await"
  /\ UNCHANGED <<parserVars, written, version, promptDir, promptFiles, idx, summary,
                 reports, exitCode, ollamaStatus>>

\* the fallback version without the model: the report shows the prompt
ReportWithoutAI ==
  /\ pc = "loop"
  /\ idx <= Len(promptFiles)
  /\ ~IsThrow(readPrompt(promptFiles[idx]))
  /\ Truthy(readPrompt(promptFiles[idx]))
  /\ version = "fallback"
  /\ ~UseAI
  /\ \E writable \in BOOLEAN :
       IF writable
       THEN /\ reports' = Append(reports,
                            [path |-> TypeOf(promptFiles[idx].name) \o S_report,
                             title |-> UpperSeq(TypeOf(promptFiles[idx].name)),
                             body |-> readPrompt(promptFiles[idx]).v])
            /\ summary' = Count("processed")
       ELSE /\ summary' = Count("failed")
            /\ UNCHANGED reports
  /\ idx' = idx + 1
  /\ UNCHANGED <<pc, parserVars, written, version, promptDir, promptFiles, requests,
                 exitCode, ollamaStatus>>

\* the bodies a response can carry; only the Ollama version looks at .error
Bodies == {"answer", "blank", "invalid", "error"}

\* res.on('end'): a body that parses resolves with response.response || '',
\* and the report is written; any failure lands in the catch of the loop
ResponseEnd ==
  /\ pc = "await"
  /\ \E body \in Bodies, writable \in BOOLEAN :
       LET rejected == body = "invalid" \/ (body = "error" /\ version = "ollama")
           llmResponse == IF body = "answer" THEN A_text ELSE <<>>
       IN IF ~rejected /\ writable
          THEN /\ reports' = Append(reports,
                               [path |-> TypeOf(promptFiles[idx].name) \o S_report,
                                title |-> UpperSeq(TypeOf(promptFiles[idx].name)),
                                body |-> llmResponse])
               /\ summary' = Count("processed")
          ELSE /\ summary' = Count("failed")
               /\ UNCHANGED reports
  /\ requests' = Settle("answered", FALSE)
  /\ idx' = idx + 1
  /\ pc' = "loop"
  /\ UNCHANGED <<parserVars, written, version, promptDir, promptFiles, exitCode,
                 ollamaStatus>>

\* req.on('error'): the promise is rejected
RequestError ==
  /\ pc = "await"
  /\ requests' = Settle("failed", FALSE)
  /\ summary' = Count("failed")
  /\ idx' = idx + 1
  /\ pc' = "loop"
  /\ UNCHANGED <<parserVars, written, version, promptDir, promptFiles, reports, exitCode,
                 ollamaStatus>>

\* req.on('timeout'): the request is destroyed and the promise rejected
RequestTimeout ==
  /\ pc = "await"
  /\ requests' = Settle("timedout", TRUE)
  /\ summary' = Count("failed")
  /\ idx' = idx + 1
  /\ pc' = "loop"
  /\ UNCHANGED <<parserVars, written, version, promptDir, promptFiles, reports, exitCode,
                 ollamaStatus>>

\* the 'error' event of a destroyed request: its promise is settled already,
\* reject (or resolve) does nothing
SocketHangUp ==
  /\ exitCode = NotExited
  /\ \E r \in 1..Len(requests) :
       /\ requests[r].hangup
       /\ requests' = [requests EXCEPT ![r].hangup = FALSE]
  /\ UNCHANGED <<pc, parserVars, written, version, promptDir, promptFiles, idx, summary,
                 reports, exitCode, ollamaStatus>>

\* the end of the loop: the versions of part_000 write summary.json; the
\* Ollama version exits with 1 when a prompt failed, the others end with 0
\* when no event is left
Finish ==
  /\ pc = "loop"
  /\ idx > Len(promptFiles)
  /\ version # "ollama" => \A r \in 1..Len(requests) : ~requests[r].hangup
  /\ IF version # "llm" THEN WriteJSONSummary("summary.json", summary)
     ELSE UNCHANGED written
  /\ pc' = "finished"
  /\ exitCode' = IF version = "ollama" /\ summary.failed > 0 THEN 1 ELSE 0
  /\ UNCHANGED <<parserVars, version, promptDir, promptFiles, idx, requests, summary,
                 reports, ollamaStatus>>

NextRec ==
  \/ StartRecommender
  \/ AvailabilityAnswer
  \/ ListPrompts
  \/ SkipPrompt
  \/ UnreadablePrompt
  \/ QueryLLM
  \/ ReportWithoutAI
  \/ ResponseEnd
  \/ RequestError
  \/ RequestTimeout
  \/ SocketHangUp
  \/ Finish

SpecRec == InitRec /\ [][NextRec]_vars

\* the requests issued for the i-th prompt file of the loop
RequestsFor(i) == SelectSeq(requests, LAMBDA r : r.file = i)

HasContent(entry) == entry.isFile /\ entry.content # Undef /\ entry.content.chars # <<>>

\* C17: in ai_recommender.js and in the Ollama version,
\* one request per prompt file with content and none for the others, at
\* most one request outstanding at any time, a request issued only when every
\* earlier one has been answered, has failed or has timed out, and, whatever
\* the fate of the requests, every prompt file with content has had its
\* request when the run has ended.
C17_OneSequentialRequestPerPrompt ==
  version \in {"llm", "ollama"} =>
    /\ Cardinality({r \in 1..Len(requests) : requests[r].state = "outstanding"}) <= 1
    /\ \A r \in 1..(Len(requests) - 1) : requests[r].state # "outstanding"
    /\ \A i \in 1..Len(promptFiles) :
         /\ Len(RequestsFor(i)) <= 1
         /\ ~HasContent(promptFiles[i]) => RequestsFor(i) = <<>>
         /\ (pc \in {"finished", "crashed"} /\ HasContent(promptFiles[i]))
              => Len(RequestsFor(i)) = 1

(***************************************************************************)
(* The order of the steps of main.                                         *)
(***************************************************************************)
Produced(cat) == DataOf(cat).status = "returned"

\* the paths main writes, in the order the source writes them
OutputOrder ==
  <<"json/normalized_sast.json", "json/normalized_sca.json", "json/normalized_dast.json",
    "prompts/prompt_sast.txt", "prompts/prompt_sca.txt", "prompts/prompt_dast.txt">>

\* C21: the categories are parsed in the order SAST, SCA, DAST and no output
\* file is written before all three are parsed; the three normalized JSON
\* files are written, in that order, before any prompt file; a run in which a
\* category fails to parse leaves no output file; and each prompt embeds the
\* very text written to the JSON file of its category, the serialization of
\* that category's ToolResult.
C21_ParseAllThenJsonThenPrompts ==
  /\ scaData # Idle => Produced("SAST")
  /\ dastData # Idle => Produced("SCA")
  /\ written # <<>> => \A cat \in Categories : Produced(cat)
  /\ Len(written) <= Len(OutputOrder)
  /\ \A i \in 1..Len(written) : written[i].path = OutputOrder[i]
  /\ pc = "aborted" => written = <<>>
  /\ (\E cat \in Categories : DataOf(cat).status = "raised") => written = <<>>
  /\ \A cat \in Categories :
       \A i \in 1..Len(written) :
         written[i].path = PromptFileOf(cat) =>
           /\ WritesTo(JsonFileOf(cat)) # <<>>
           /\ written[i].text.type = cat
           /\ written[i].text.json = WritesTo(JsonFileOf(cat))[1].text
           /\ written[i].text.json = JSONStringify(DataOf(cat).value)
  /\ pc = "done" => Len(written) = Len(OutputOrder)

C21_Witness ==
  /\ pc = "done"
  /\ Len(written) = 6
  /\ sastData.value.vulnerabilities # <<>>
  /\ written[4].text.json = written[1].text
  /\ written[1].text # written[2].text

(***************************************************************************)
(* The counters of the recommender's summary (versions of part_000).       *)
(***************************************************************************)
\* the prompt files whose iteration has ended, normally or not
Handled == IF pc = "crashed" THEN idx ELSE idx - 1

SummaryWrites == SelectSeq(written, LAMBDA w : w.path = "summary.json")

\* C22: in the prompt loop of the Ollama and fallback versions, processed +
\* failed is the number of prompt files handled so far, every prompt file
\* having incremented exactly one of the two counters (an empty or unreadable
\* prompt and any request or report-writing error count as failed); the
\* summary.json that is written has processed + failed = total_prompts; and
\* the Ollama version, once in the loop, exits with a non-zero code exactly
\* when failed > 0.
C22_CountersPartitionPrompts ==
  (version \in {"ollama", "fallback"} /\ pc \in {"loop", "await", "finished", "crashed"}
     /\ promptFiles # <<>>) =>
    /\ summary.processed + summary.failed = Handled
    /\ summary.failed >=
         Cardinality({i \in 1..Handled : ~HasContent(promptFiles[i])})
    /\ summary.processed <=
         Cardinality({i \in 1..Handled : HasContent(promptFiles[i])})
    /\ \A k \in 1..Len(SummaryWrites) :
         SummaryWrites[k].text.processed + SummaryWrites[k].text.failed
           = SummaryWrites[k].text.total_prompts
    /\ (version = "ollama" /\ exitCode # NotExited) =>
         (exitCode # 0 <=> summary.failed > 0)

====
